---- MODULE Spec2Model ----
(***************************************************************************)
(* A model of MatrixZulipBridge: the per-room EventQueue (debounce timer,  *)
(* work chain, serial worker), the Zulip event handler and the room        *)
(* handlers that keep the translation tables, the connection state machine *)
(* of an OrganizationRoom, and the to_config / from_config conversions.    *)
(* The queue is modelled twice: with enqueue() as one step of the loop      *)
(* thread, and with enqueue() called on the executor thread that runs the   *)
(* Zulip event handlers while the loop thread runs _flush.                  *)
(*                                                                         *)
(* Time is counted in ticks of 50 ms, so the 0.1 s debounce delay is 2     *)
(* ticks and the 0.5 s forced-flush limit is 10 ticks.  A timer handle     *)
(* fires at its deadline: the clock does not pass a due timer.             *)
(***************************************************************************)
EXTENDS Integers, Sequences, FiniteSets, TLC

VARIABLES
    \* ---- EventQueue (event_queue.py) ----
    now,        \* loop.time(), in ticks
    start,      \* EventQueue._start
    timer,      \* EventQueue._timer: deadline of the call_later handle, -1 = None
    events,     \* EventQueue._events
    chain,      \* EventQueue._chain: the queued callback(events) coroutines
    task,       \* EventQueue._task / position of _run: "none", "get", "run"
    running,    \* the callback tasks created by _run and not yet finished
    executed,   \* every event handed to the consumer, in the order of the hand-over
    enqueued,   \* every event given to enqueue(), in call order
    last,       \* time of the latest enqueue() call, -1 before the first
    \* ---- enqueue() called on an executor thread (organization_room.py, zulip.py) ----
    sched,      \* the loop's scheduled call_later handles, and the one _timer refers to
    caller,     \* the enqueue() call in progress on the executor thread, if any
    flushing,   \* the _flush call in progress on the loop thread, if any
    \* ---- OrganizationRoom connection (organization_room.py) ----
    org,        \* connected, disconnect, backoff, backoff_task, zulip, connlock
    pc,         \* per command task: where it is suspended
    orgEnv,     \* credentials set, name in config["organizations"], owner in room
    nfail,      \* failed attempts since backoff was last 0
    discAsked,  \* DISCONNECT was issued during a backoff wait, no connect() since
    lastConnect, \* per task: how its latest connect() call ended
    \* ---- one bridged room of the organization (room.py, direct_room.py, zulip.py) ----
    kind,       \* "stream" (StreamRoom) or "direct" (DirectRoom)
    saved,      \* the tables in the room's account-data blob, as Room.save() wrote them
    messages,   \* DirectRoom.messages: Zulip message id -> Matrix event id
    reactions,  \* DirectRoom.reactions: Matrix event id -> (message, emoji, user)
    threads,    \* Room.threads: Zulip topic -> Matrix thread root event id
    seen,       \* ZulipEventHandler.messages
    inflight,   \* the _flush_event suspended at an await, if any
    nextEv,     \* the next Matrix event id the homeserver hands out
    mxlog,      \* the Matrix API calls that returned, in order
    zlog,       \* the Zulip API calls made, in order
    raised,     \* exceptions that left on_event towards the long-poll caller
    ref,        \* reference model: the reactions added and not yet removed
    faults,     \* external calls that failed so far
    lastOp,     \* the latest inbound event handled, numbered
    \* ---- persistence (to_config / from_config) ----
    live,       \* the fields of the room object in memory
    blob,       \* the account-data blob written by save(), if any
    restored,   \* the room object built from the blob at startup, if any
    nloads,     \* how many times from_config ran on the restored object
    \* ---- members of the stream room (stream_room.py, room.py) ----
    member_sync,  \* StreamRoom.member_sync
    members,      \* Room.members, a list
    lazy_members, \* Room.lazy_members: [on |-> FALSE] is None
    mxin,         \* m.room.member events the homeserver has not delivered yet
    synced,       \* the subscriber list of the latest sync_zulip_members call
    registered,   \* the room's id is a key of BridgeAppService._rooms
    \* ---- direct rooms of the organization (direct_room.py, personal_room.py) ----
    direct_rooms, \* OrganizationRoom.direct_rooms: recipient set -> room
    created,      \* the recipient set of every DirectRoom made by create, in order
    dmpc,         \* per task: the DirectRoom.create call it is suspended in, if any
    roomid,       \* Room.id of the room: 0 is None
    past,         \* restarts so far, and the connection flags at the latest stop
    \* ---- start-up import of the joined rooms (__main__.py) ----
    boot,         \* phase of run(), unsafe mode, the rooms seen, _rooms, remote calls
    \* ---- moderation relay of the organization (stream_room.py, organization_room.py) ----
    mod,          \* relay_moderation, deactivated_users, zulip_puppet_user_mxid, the
                  \* latest puppet login, ban calls, ban events owed
    rooms,        \* OrganizationRoom.rooms: the stream ids that are its keys
    \* ---- the space of the organization (space_room.py) ----
    space,        \* the SpaceRoom: id, pending, position of create_finalize, queue
                  \* worker, and the m.space.child events sent per room
    \* ---- rooms made at runtime (__main__.py, *_room.py create) ----
    made          \* per room made by create: its id; and the keys of
                  \* BridgeAppService._rooms that hold such a room

qvars == <<now, start, timer, events, chain, task, running, executed, enqueued, last>>

tvars == <<sched, caller, flushing>>

cvars == <<org, pc, orgEnv, nfail, discAsked, lastConnect>>

rvars == <<kind, saved, messages, reactions, threads, seen, inflight, nextEv, mxlog, zlog,
           raised, ref, faults, lastOp>>

kvars == <<live, blob, restored, nloads>>

ovars == <<direct_rooms, created, dmpc, roomid, past, boot, mod, rooms, space, made>>

bvars == <<member_sync, members, lazy_members, mxin, synced, registered, ovars>>

vars == <<qvars, tvars, cvars, rvars, kvars, bvars>>

\* ------------------------------------------------------------------ bounds
MaxEvents == 12
MaxTime == 11
NTasks == 2
MaxFails == 11
MaxOps == 3
MaxMsgs == 2
MaxFaults == 1
MaxAmount == 2
MaxCalls == 6
MaxSyncs == 2
MaxNotices == 2
MaxRooms == 4
MaxRestarts == 1
MaxJoined == 2

\* --------------------------------------------------------- program constants
Debounce == 2
Force == 10
NoTimer == -1
BackfillDefault == 100
MediaKept == 5
BackoffFloor == 5
\* organization.profile["user_id"]: the Zulip account of the bridge itself.
Profile == 3
BackoffCeiling == 1800

\* ------------------------------------------------------------------ helpers
RECURSIVE Flatten(_)
Flatten(ss) == IF ss = <<>> THEN <<>> ELSE Head(ss) \o Flatten(Tail(ss))

Range(s) == {s[i] : i \in DOMAIN s}

IsPrefix(s, t) == Len(s) <= Len(t) /\ SubSeq(t, 1, Len(s)) = s

\* ------------------------------------------------- records of the room model
\* A reaction signature: the frozenset of message_id, emoji_name, user_id.
NoKey == [m |-> 0, e |-> "", u |-> 0]

\* A queued event: "topic" and "message" are m.room.message events whose
\* bridge data has that type; "_redact" and "_zulip_react" as in the code.
QEvent(type, target, m, topic, eid, key) ==
    [type |-> type, target |-> target, m |-> m, topic |-> topic, eid |-> eid,
     key |-> key]

NoEvent == QEvent("", "", 0, "", 0, NoKey)

\* No _flush_event is suspended.
NoFlight == [at |-> "none", ev |-> NoEvent, rel |-> 0]

NoOp == [n |-> 0, op |-> "", m |-> 0, had |-> FALSE, priv |-> FALSE]

NoRoom == [type |-> "none"]

\* No call_later handle is scheduled and _timer is None.  A handle is
\* [id, when]; ref is the id of the handle _timer refers to, 0 for None.
NoSched == [handles |-> {}, ref |-> 0, next |-> 1]

\* No enqueue() call is in progress on the executor thread.
NoCall == [pc |-> "idle", t |-> 0, n |-> 0, evs |-> <<>>]

\* No _flush call is in progress on the loop thread.
NoFlush == [pc |-> "idle", evs |-> <<>>]

\* The loop thread is not inside a callback that the executor thread has
\* preempted: it can run its next step.
LoopFree == flushing = NoFlush

ThreadIdle ==
    /\ sched = NoSched
    /\ caller = NoCall
    /\ flushing = NoFlush

\* ------------------------------------------------------------- EventQueue
\* EventQueue._flush: the buffer becomes one callback(events) put on the chain.
FlushChain(ch, evs) == Append(ch, evs)

\* enqueue(): "always cancel timer when we enqueue", then
\* call_later(0.1, _flush); the result is the deadline of the new handle.
NewTimer(t, old) == t + Debounce

\* enqueue(): "if we have bumped ourself for half a second, flush now".
MustFlushNow(t, st) == t >= st + Force

\* The fields of the queue that enqueue() and _flush() work on.
QueueNow == [start |-> start, timer |-> timer, events |-> events, chain |-> chain]

\* EventQueue.enqueue(event) at loop time t, as a function of those fields.
Enqueued(q, ev, t) ==
    LET st == IF Len(q.events) = 0 THEN t ELSE q.start
        evs == Append(q.events, ev)
    IN  IF MustFlushNow(t, st)
           THEN [start |-> st, timer |-> NoTimer, events |-> <<>>,
                 chain |-> FlushChain(q.chain, evs)]
           ELSE [start |-> st, timer |-> NewTimer(t, q.timer), events |-> evs,
                 chain |-> q.chain]

\* Consecutive enqueue() calls of one handler, all at loop time t.
RECURSIVE EnqueuedAll(_, _, _)
EnqueuedAll(q, evs, t) ==
    IF evs = <<>> THEN q ELSE EnqueuedAll(Enqueued(q, Head(evs), t), Tail(evs), t)

\* A handler calls enqueue() for each event of evs, in order.
EnqueueOp(evs) ==
    LET q == EnqueuedAll(QueueNow, evs, now)
    IN  /\ start' = q.start
        /\ timer' = q.timer
        /\ events' = q.events
        /\ chain' = q.chain
        /\ enqueued' = enqueued \o evs
        /\ last' = IF evs = <<>> THEN last ELSE now

\* The call_later handle fires: EventQueue._flush.
TimerFire ==
    /\ timer # NoTimer
    /\ timer <= now
    /\ timer' = NoTimer
    /\ events' = <<>>
    /\ chain' = FlushChain(chain, events)
    /\ UNCHANGED <<now, start, task, running, executed, enqueued, last>>
    /\ UNCHANGED <<tvars, cvars, rvars, kvars, bvars>>

\* The loop clock advances; a due timer handle runs first.
Tick ==
    /\ now < MaxTime
    /\ timer = NoTimer \/ timer > now
    /\ now' = now + 1
    /\ UNCHANGED <<start, timer, events, chain, task, running, executed, enqueued, last>>
    /\ UNCHANGED <<tvars, cvars, rvars, kvars, bvars>>

\* EventQueue.start()
Start ==
    /\ task = "none"
    /\ task' = "get"
    /\ UNCHANGED <<now, start, timer, events, chain, running, executed, enqueued, last>>
    /\ UNCHANGED <<tvars, cvars, rvars, kvars, bvars>>

\* _run is at "task = await self._chain.get()": the previous callback, if
\* any, has been awaited to its end.
WorkerReady == task = "get"

\* _run: take the next callback from the chain and create its task.
WorkerGet ==
    /\ LoopFree
    /\ WorkerReady
    /\ chain # <<>>
    /\ running' = Append(running, Head(chain))
    /\ chain' = Tail(chain)
    /\ task' = "run"
    /\ UNCHANGED <<now, start, timer, events, executed, enqueued, last>>
    /\ UNCHANGED <<tvars, cvars, rvars, kvars, bvars>>

\* _run: "await asyncio.create_task(task)" returns, chain.task_done(): the
\* callback has run through its events and its last _flush_event has returned.
WorkerDone ==
    /\ LoopFree
    /\ task = "run"
    /\ inflight = NoFlight
    /\ \E i \in DOMAIN running :
        /\ running[i] = <<>>
        /\ running' = [j \in 1..(Len(running) - 1) |->
                          IF j < i THEN running[j] ELSE running[j + 1]]
    /\ task' = "get"
    /\ UNCHANGED <<now, start, timer, events, chain, executed, enqueued, last>>
    /\ UNCHANGED <<tvars, cvars, rvars, kvars, bvars>>

\* Room._flush_events: the running callback hands its next event to
\* _flush_event.
CallbackStep ==
    /\ LoopFree
    /\ \E i \in DOMAIN running :
        /\ running[i] # <<>>
        /\ executed' = Append(executed, Head(running[i]))
        /\ running' = [running EXCEPT ![i] = Tail(running[i])]
    /\ UNCHANGED <<now, start, timer, events, chain, task, enqueued, last>>
    /\ UNCHANGED <<tvars, cvars, rvars, kvars, bvars>>

\* A producer calls enqueue() with a fresh event.
EnqueueQ ==
    /\ Len(enqueued) < MaxEvents
    /\ EnqueueOp(<<Len(enqueued) + 1>>)
    /\ UNCHANGED <<now, task, running, executed>>
    /\ UNCHANGED <<tvars, cvars, rvars, kvars, bvars>>

QueueIdle ==
    /\ now = 0
    /\ start = 0
    /\ timer = NoTimer
    /\ events = <<>>
    /\ chain = <<>>
    /\ task = "none"
    /\ running = <<>>
    /\ executed = <<>>
    /\ enqueued = <<>>
    /\ last = -1
    /\ ThreadIdle

\* OrganizationRoom.init(): the connection fields of a new organization.
OrgInit ==
    [connected |-> FALSE, disconnect |-> TRUE, backoff |-> 0,
     backoff_task |-> "none", zulip |-> "none", connlock |-> 0]

Tasks == 1..NTasks

ConnIdle ==
    /\ org = OrgInit
    /\ pc = [p \in Tasks |-> "idle"]
    /\ orgEnv = [creds |-> TRUE, inConfig |-> TRUE, ownerIn |-> TRUE]
    /\ nfail = 0
    /\ discAsked = FALSE
    /\ lastConnect = [p \in Tasks |-> "none"]

\* Room.__init__ and DirectRoom.init(): empty tables.
RoomIdle ==
    /\ messages = <<>>
    /\ saved = [messages |-> <<>>, reactions |-> <<>>, threads |-> <<>>]
    /\ reactions = <<>>
    /\ threads = <<>>
    /\ seen = {}
    /\ inflight = NoFlight
    /\ nextEv = 1
    /\ mxlog = <<>>
    /\ zlog = <<>>
    /\ raised = FALSE
    /\ ref = {}
    /\ faults = 0
    /\ lastOp = NoOp

CfgIdle ==
    /\ live = NoRoom
    /\ blob = NoRoom
    /\ restored = NoRoom
    /\ nloads = 0

\* OrganizationRoom.space is None: no SpaceRoom has been made.  id 0 is
\* None; pc is the position of create_finalize and todo its local list
\* "rooms"; sent counts, per room, the m.space.child events that attach it;
\* children are the rooms the space holds; task is the task of the space's
\* EventQueue and enqueued the number of events given to it.  asked and
\* detached are the rooms that have called attach and detach, queued those
\* that were put into pending, dropped those detached before their
\* m.space.child event was sent.
NoSpace ==
    [pc |-> "off", id |-> 0, pending |-> <<>>, todo |-> <<>>, task |-> "none",
     enqueued |-> 0, sent |-> <<>>, children |-> {}, asked |-> {}, queued |-> {},
     detached |-> {}, dropped |-> {}]

\* No room has been made at runtime.
NoneMade == [ids |-> <<>>, rooms |-> <<>>]

\* A stream room that StreamRoom.create has made: the owner and the
\* appservice account are in the room, the room has its id, and the
\* organization has no direct room.  member_sync is as init() sets it.
BridgeIdle ==
    /\ member_sync = "full"
    /\ members = <<"@alice", "@zulip_bridge">>
    /\ lazy_members = [on |-> TRUE, ids |-> {}]
    /\ mxin = <<>>
    /\ synced = {}
    /\ registered = TRUE
    /\ direct_rooms = <<>>
    /\ rooms = {1}
    /\ space = NoSpace
    /\ made = NoneMade
    /\ created = <<>>
    /\ dmpc = [p \in {"queue", "cmd"} |-> {}]
    /\ roomid = 1
    /\ past = [n |-> 0, disconnect |-> TRUE, connected |-> FALSE]
    /\ boot = [phase |-> "off", unsafe |-> FALSE, n |-> 0, cfg |-> <<>>, rooms |-> {},
               i |-> 0, calls |-> <<>>]
    /\ mod = [relay |-> TRUE, deactivated |-> {}, puppets |-> (2 :> "@alice"),
              login |-> [n |-> 0, user |-> "", z |-> 0], bans |-> <<>>,
              owed |-> <<>>, n |-> 0, exc |-> FALSE]


\* ------------------------------------------- OrganizationRoom: connection
\* The zulip field is "none" (None), "new" (a zulip.Client whose has_connected
\* is still False: no request has been answered) or "live" (has_connected).
\* A command task p is "idle" or suspended in: "conn_try" (the head of the
\* while loop of _connect), "conn_save" (await self.save() of an attempt),
\* "conn_sleep" (await self.backoff_task), "conn_cancelled" (the same, the
\* sleep cancelled), "disc_save" (await self.save() of cmd_disconnect),
\* "reconn_mid" (cmd_reconnect between its two awaits).

InConnect(p) == pc[p] \in {"conn_try", "conn_save", "conn_sleep", "conn_cancelled"}

\* A faulty validity check that looks at the owner alone.
IsValidOrg_OwnerOnly(present, o) == present

\* OrganizationRoom.is_valid(), for an organization that has a name:
\* present is in_room(self.user_id).  post_init_done is read only when the
\* organization is connected, and is true from the post_init of run() on.
IsValidOrg(present, o) == present \/ (o.connected /\ rooms # {})

\* A faulty backoff step that doubles without the ceiling test.
BackoffNext_NoCeiling(b) == IF b * 2 < BackoffFloor THEN BackoffFloor ELSE b * 2

\* _connect: "if self.backoff < 1800: self.backoff = self.backoff * 2",
\* "if self.backoff < 5: self.backoff = 5".
BackoffNext(b) ==
    LET d == IF b < BackoffCeiling THEN b * 2 ELSE b
    IN  IF d < BackoffFloor THEN BackoffFloor ELSE d

\* The under_organization_room.connected decorator lets the handler run.
ConnectedGuard(o) == o.zulip = "live"

\* A faulty connect() without the lock test.
ConnLockFree_NoLock(o) == TRUE

\* connect(): "if self.connlock.locked(): ... return".
ConnLockFree(o) == o.connlock = 0

\* _connect: the except branch and the backoff wait that follows it.
FailAttempt(p, o) ==
    /\ nfail < MaxFails
    /\ org' = [o EXCEPT !.backoff = BackoffNext(o.backoff), !.backoff_task = "sleeping"]
    /\ pc' = [pc EXCEPT ![p] = "conn_sleep"]
    /\ nfail' = nfail + 1

\* _connect returns; "async with self.connlock" releases the lock.
LeaveConnect(p, o) ==
    /\ org' = [o EXCEPT !.connlock = 0]
    /\ pc' = [pc EXCEPT ![p] = "idle"]
    /\ nfail' = nfail

\* OrganizationRoom.connect(), up to the while loop of _connect.
ConnectCall(p) ==
    /\ pc[p] \in {"idle", "reconn_mid"}
    /\ discAsked' = FALSE
    /\ UNCHANGED <<orgEnv, nfail>>
    /\ IF ~IsValidOrg(orgEnv.ownerIn, org)
          THEN /\ lastConnect' = [lastConnect EXCEPT ![p] = "invalid"]
               /\ pc' = [pc EXCEPT ![p] = "idle"]
               /\ org' = org
       ELSE IF ~ConnLockFree(org)
          THEN /\ lastConnect' = [lastConnect EXCEPT ![p] = "busy"]
               /\ pc' = [pc EXCEPT ![p] = "idle"]
               /\ org' = org
       ELSE IF org.zulip # "none" /\ org.connected
          THEN /\ lastConnect' = [lastConnect EXCEPT ![p] = "already"]
               /\ pc' = [pc EXCEPT ![p] = "idle"]
               /\ org' = org
       ELSE IF ~orgEnv.creds
          THEN /\ lastConnect' = [lastConnect EXCEPT ![p] = "nocreds"]
               /\ pc' = [pc EXCEPT ![p] = "idle"]
               /\ org' = [org EXCEPT !.disconnect = FALSE]
       ELSE /\ lastConnect' = [lastConnect EXCEPT ![p] = "ran"]
            /\ pc' = [pc EXCEPT ![p] = "conn_try"]
            /\ org' = [org EXCEPT !.disconnect = FALSE, !.zulip = "none", !.connlock = p]
    /\ UNCHANGED <<qvars, tvars, rvars, kvars, bvars>>

\* _connect after "await self.save()": the rest of an attempt.
ConnRest(p, o) ==
    IF o.zulip = "none"
       THEN LeaveConnect(p, o)
       ELSE LET o1 == [o EXCEPT !.disconnect = FALSE]
            IN  \/ FailAttempt(p, o1)                          \* get_profile raises
                \/ FailAttempt(p, [o1 EXCEPT !.zulip = "live"])  \* a later call raises
                \/ LeaveConnect(p, [o1 EXCEPT !.zulip = "live"]) \* connected

\* _connect: one pass of the while loop up to its first suspension.
ConnTry(p) ==
    /\ pc[p] = "conn_try"
    /\ UNCHANGED <<orgEnv, discAsked, lastConnect>>
    /\ IF org.disconnect \/ ~orgEnv.inConfig
          THEN LeaveConnect(p, org)
          ELSE \/ FailAttempt(p, org)                          \* zulip.Client() raises
               \/ /\ ~org.connected
                  /\ org' = [org EXCEPT !.zulip = "new", !.connected = TRUE]
                  /\ pc' = [pc EXCEPT ![p] = "conn_save"]
                  /\ nfail' = nfail
               \/ /\ org.connected
                  /\ ConnRest(p, [org EXCEPT !.zulip = "new"])
    /\ UNCHANGED <<qvars, tvars, rvars, kvars, bvars>>

\* _connect: "await self.save()" returns or raises.
ConnSaved(p) ==
    /\ pc[p] = "conn_save"
    /\ UNCHANGED <<orgEnv, discAsked, lastConnect>>
    /\ \/ FailAttempt(p, org)
       \/ ConnRest(p, org)
    /\ UNCHANGED <<qvars, tvars, rvars, kvars, bvars>>

\* _connect: the backoff sleep ends.
SleepElapsed(p) ==
    /\ pc[p] = "conn_sleep"
    /\ org.backoff_task = "sleeping"
    /\ org' = [org EXCEPT !.backoff_task = "none"]
    /\ pc' = [pc EXCEPT ![p] = "conn_try"]
    /\ UNCHANGED <<orgEnv, nfail, discAsked, lastConnect>>
    /\ UNCHANGED <<qvars, tvars, rvars, kvars, bvars>>

\* _connect: the backoff sleep was cancelled: break, "Connection aborted.".
SleepCancelled(p) ==
    /\ pc[p] = "conn_cancelled"
    /\ LeaveConnect(p, [org EXCEPT !.backoff_task = "none"])
    /\ UNCHANGED <<orgEnv, discAsked, lastConnect>>
    /\ UNCHANGED <<qvars, tvars, rvars, kvars, bvars>>

\* cmd_disconnect behind the connected decorator, up to its suspension.
DisconnectBody(p, next) ==
    LET waiting == \E q \in Tasks : pc[q] = "conn_sleep"
    IN  IF ~ConnectedGuard(org)
           THEN /\ org' = org
                /\ pc' = [pc EXCEPT ![p] = next]
                /\ nfail' = nfail
                /\ discAsked' = (discAsked \/ waiting)
           ELSE LET o1 == [org EXCEPT !.disconnect = TRUE, !.backoff_task = "none",
                                      !.backoff = 0]
                    pc1 == [q \in Tasks |->
                               IF pc[q] = "conn_sleep" THEN "conn_cancelled" ELSE pc[q]]
                IN  /\ nfail' = 0
                    /\ discAsked' = (discAsked \/ waiting)
                    /\ IF org.connected
                          THEN /\ org' = [o1 EXCEPT !.connected = FALSE]
                               /\ pc' = [pc1 EXCEPT ![p] =
                                            IF next = "idle" THEN "disc_save"
                                            ELSE "disc_save_re"]
                          ELSE /\ org' = [o1 EXCEPT !.zulip = "none"]
                               /\ pc' = [pc1 EXCEPT ![p] = next]

\* The DISCONNECT command.
DisconnectCall(p) ==
    /\ pc[p] = "idle"
    /\ DisconnectBody(p, "idle")
    /\ UNCHANGED <<orgEnv, lastConnect>>
    /\ UNCHANGED <<qvars, tvars, rvars, kvars, bvars>>

\* The RECONNECT command: cmd_disconnect, then cmd_connect (ConnectCall).
ReconnectCall(p) ==
    /\ pc[p] = "idle"
    /\ DisconnectBody(p, "reconn_mid")
    /\ UNCHANGED <<orgEnv, lastConnect>>
    /\ UNCHANGED <<qvars, tvars, rvars, kvars, bvars>>

\* cmd_disconnect: "await self.save()" returns (then zulip is cleared) or
\* raises (the command ends there).
DisconnectSaved(p) ==
    /\ pc[p] \in {"disc_save", "disc_save_re"}
    /\ \/ /\ org' = [org EXCEPT !.zulip = "none"]
          /\ pc' = [pc EXCEPT ![p] = IF pc[p] = "disc_save" THEN "idle" ELSE "reconn_mid"]
       \/ /\ org' = org
          /\ pc' = [pc EXCEPT ![p] = "idle"]
    /\ UNCHANGED <<orgEnv, nfail, discAsked, lastConnect>>
    /\ UNCHANGED <<qvars, tvars, rvars, kvars, bvars>>

\* DELORGANIZATION in the control room removes the name from the config.
DelOrganization ==
    /\ orgEnv.inConfig
    /\ orgEnv' = [orgEnv EXCEPT !.inConfig = FALSE]
    /\ UNCHANGED <<org, pc, nfail, discAsked, lastConnect>>
    /\ UNCHANGED <<qvars, tvars, rvars, kvars, bvars>>

InitConn ==
    /\ QueueIdle
    /\ kind = "stream"
    /\ RoomIdle
    /\ BridgeIdle
    /\ CfgIdle
    /\ org = OrgInit
    /\ pc = [p \in Tasks |-> "idle"]
    /\ orgEnv \in [creds : BOOLEAN, inConfig : {TRUE}, ownerIn : BOOLEAN]
    /\ nfail = 0
    /\ discAsked = FALSE
    /\ lastConnect = [p \in Tasks |-> "none"]

NextConn ==
    \/ \E p \in Tasks : ConnectCall(p)
    \/ \E p \in Tasks : ConnTry(p)
    \/ \E p \in Tasks : ConnSaved(p)
    \/ \E p \in Tasks : SleepElapsed(p)
    \/ \E p \in Tasks : SleepCancelled(p)
    \/ \E p \in Tasks : DisconnectCall(p)
    \/ \E p \in Tasks : ReconnectCall(p)
    \/ \E p \in Tasks : DisconnectSaved(p)
    \/ DelOrganization

SpecConn == InitConn /\ [][NextConn]_vars

\* ------------------------------------------ claims on the connection
Min(a, b) == IF a < b THEN a ELSE b
Max(a, b) == IF a > b THEN a ELSE b

RECURSIVE Pow2(_)
Pow2(n) == IF n = 0 THEN 1 ELSE 2 * Pow2(n - 1)

\* C4 (as stated): once DISCONNECT has been issued during a backoff wait, the
\* wait is cancelled and no attempt follows until connect() is invoked again:
\* no task is left waiting for the backoff sleep, in an attempt or about to
\* start one, whatever made the preceding attempt fail.
C4_DisconnectStopsRetry ==
    discAsked =>
        \A p \in Tasks : pc[p] \notin {"conn_sleep", "conn_try", "conn_save"}

\* C5 (as stated): after N consecutive failures the wait is
\* min(1800, max(5, 5 * 2^(N-1))) seconds and backoff never exceeds 1800.
C5_BackoffFormula ==
    /\ org.backoff <= BackoffCeiling
    /\ nfail >= 1 =>
         org.backoff = Min(BackoffCeiling, Max(BackoffFloor, BackoffFloor * Pow2(nfail - 1)))

\* C6: connect() changes nothing when a connect is in flight or the
\* organization is already connected, and at most one execution of the
\* connect routine is active at any time.
C6_SingleConnect ==
    /\ [](Cardinality({p \in Tasks : InConnect(p)}) <= 1)
    /\ [](\A p \in Tasks : InConnect(p) => org.connlock = p)
    /\ [][\A p \in Tasks :
            (pc[p] \in {"idle", "reconn_mid"} /\ lastConnect'[p] # lastConnect[p]
                /\ lastConnect'[p] \in {"busy", "already"})
                => (org' = org /\ pc'[p] = "idle")]_vars

\* C6 witness: a connect() call returned "Already connecting." while another
\* task is in the backoff wait of the connect routine.
C6_Witness ==
    \E p, q \in Tasks :
        /\ p # q
        /\ lastConnect[p] = "busy"
        /\ pc[q] = "conn_sleep"
        /\ nfail >= 2

InitQueue ==
    /\ ConnIdle
    /\ ThreadIdle
    /\ kind = "stream"
    /\ RoomIdle
    /\ BridgeIdle
    /\ CfgIdle
    /\ now = 0
    /\ start = 0
    /\ timer = NoTimer
    /\ events = <<>>
    /\ chain = <<>>
    /\ task = "none"
    /\ running = <<>>
    /\ executed = <<>>
    /\ enqueued = <<>>
    /\ last = -1

NextQueue ==
    \/ EnqueueQ
    \/ TimerFire
    \/ Tick
    \/ Start
    \/ WorkerGet
    \/ CallbackStep
    \/ WorkerDone

SpecQueue == InitQueue /\ [][NextQueue]_vars

\* ------------------------- EventQueue with every caller on the loop thread
\* Two events are in the same flush call: both still in the buffer (which is
\* flushed as a whole) or both in one callback(events) of the chain.
InOneBatch(evs, ch, a, b) ==
    \/ {a, b} \subseteq Range(evs)
    \/ \E i \in DOMAIN ch : {a, b} \subseteq Range(ch[i])

EnqueueStep == Len(enqueued') = Len(enqueued) + 1

\* Every event given to enqueue() is, in enqueue order, either handed to the
\* consumer, in a running callback, on the chain, in the list a _flush in
\* progress has taken, or in the buffer.
NothingLostOrReordered ==
    executed \o Flatten(running) \o Flatten(chain) \o flushing.evs \o caller.evs
        \o events = enqueued

\* With every enqueue() call made on the loop thread, the events handed to the
\* consumer are in enqueue order, none is lost, and a callback starts only
\* after the previous one has finished.
OrderedSerialOnLoop ==
    /\ Len(running) <= 1
    /\ IsPrefix(executed, enqueued)
    /\ NothingLostOrReordered

\* An event enqueued less than 100 ms after the previous one is in the flush
\* call of the previous one.
WithinWindowOneFlush ==
    (EnqueueStep /\ Len(enqueued) >= 1 /\ last' - last < Debounce)
        => InOneBatch(events', chain', Len(enqueued), Len(enqueued) + 1)

\* The same, for a previous event that was enqueued less than 500 ms after
\* the first buffered event (so that its enqueue did not flush at once).
WithinWindowOneFlushBeforeForce ==
    (EnqueueStep /\ Len(enqueued) >= 1 /\ last' - last < Debounce
        /\ last < start + Force)
        => InOneBatch(events', chain', Len(enqueued), Len(enqueued) + 1)

\* An event enqueued more than 100 ms after the previous one is in another
\* flush call.
SpacedSeveralFlushes ==
    (EnqueueStep /\ Len(enqueued) >= 1 /\ last' - last > Debounce)
        => ~InOneBatch(events', chain', Len(enqueued), Len(enqueued) + 1)

\* With every enqueue() call made on the loop thread: events enqueued each
\* less than 100 ms after the previous one are in one flush call as long as
\* each but the last is enqueued less than 500 ms after the first buffered
\* event (an enqueue 500 ms or more after it flushes at once); events spaced
\* farther apart than 100 ms are in several flush calls; none is reordered,
\* duplicated or dropped.
WindowedFlushesOnLoop ==
    /\ [][WithinWindowOneFlushBeforeForce /\ SpacedSeveralFlushes]_vars
    /\ []NothingLostOrReordered

\* ------------------------------------ enqueue() on an executor thread
\* ZulipEventHandler.on_event and OrganizationRoom.on_puppet_event run in
\* call_on_each_event on an executor thread (run_in_executor) and reach
\* EventQueue.enqueue through Room.send_message, Room.redact,
\* relay_zulip_react and dm_message, while the call_later handle runs _flush
\* on the loop thread.  The interpreter switches threads only at calls, so
\* the statements between two calls are one step.  The statements of one
\* call run within one tick of the clock.

\* enqueue() is entered on the executor thread: "now = self._loop.time()".
ThreadCall ==
    /\ caller = NoCall
    /\ Len(enqueued) < MaxCalls
    /\ caller' = [NoCall EXCEPT !.pc = "cancel", !.t = now]
    /\ UNCHANGED <<qvars, sched, flushing>>
    /\ UNCHANGED <<cvars, rvars, kvars, bvars>>

\* "if self._timer: self._timer.cancel()": a handle that has run or is
\* running is not affected, and _timer keeps referring to the handle.
ThreadCancel ==
    /\ caller.pc = "cancel"
    /\ sched' = [sched EXCEPT !.handles = {h \in @ : h.id # sched.ref}]
    /\ caller' = [caller EXCEPT !.pc = "len"]
    /\ UNCHANGED <<qvars, flushing>>
    /\ UNCHANGED <<cvars, rvars, kvars, bvars>>

\* "len(self._events)" returns.
ThreadLen ==
    /\ caller.pc = "len"
    /\ caller' = [caller EXCEPT !.pc = "append", !.n = Len(events)]
    /\ UNCHANGED <<qvars, sched, flushing>>
    /\ UNCHANGED <<cvars, rvars, kvars, bvars>>

\* "if len(...) == 0: self._start = now" and "self._events.append(event)".
ThreadAppend ==
    /\ caller.pc = "append"
    /\ start' = IF caller.n = 0 THEN caller.t ELSE start
    /\ events' = Append(events, Len(enqueued) + 1)
    /\ enqueued' = Append(enqueued, Len(enqueued) + 1)
    /\ last' = caller.t
    /\ caller' = [caller EXCEPT !.pc = "test"]
    /\ UNCHANGED <<now, timer, chain, task, running, executed>>
    /\ UNCHANGED <<sched, flushing>>
    /\ UNCHANGED <<cvars, rvars, kvars, bvars>>

\* "if now >= self._start + 0.5: self._flush()" is entered, or
\* "self._timer = self._loop.call_later(0.1, self._flush)".
ThreadTest ==
    /\ caller.pc = "test"
    /\ IF MustFlushNow(caller.t, start)
          THEN /\ caller' = [caller EXCEPT !.pc = "flush"]
               /\ UNCHANGED <<timer, sched>>
          ELSE /\ timer' = NewTimer(now, timer)
               /\ sched' = [handles |-> sched.handles \cup
                                           {[id |-> sched.next, when |-> NewTimer(now, timer)]},
                            ref |-> sched.next,
                            next |-> sched.next + 1]
               /\ caller' = NoCall
    /\ UNCHANGED <<now, start, events, chain, task, running, executed, enqueued, last>>
    /\ UNCHANGED flushing
    /\ UNCHANGED <<cvars, rvars, kvars, bvars>>

\* _flush on the executor thread, up to "self._callback(events)".
ThreadFlushSwap ==
    /\ caller.pc = "flush"
    /\ caller' = [caller EXCEPT !.pc = "put", !.evs = events]
    /\ timer' = NoTimer
    /\ sched' = [sched EXCEPT !.ref = 0]
    /\ events' = <<>>
    /\ UNCHANGED <<now, start, chain, task, running, executed, enqueued, last>>
    /\ UNCHANGED flushing
    /\ UNCHANGED <<cvars, rvars, kvars, bvars>>

\* _flush on the executor thread: "self._chain.put_nowait(...)".
ThreadFlushPut ==
    /\ caller.pc = "put"
    /\ chain' = FlushChain(chain, caller.evs)
    /\ caller' = NoCall
    /\ UNCHANGED <<now, start, timer, events, task, running, executed, enqueued, last>>
    /\ UNCHANGED <<sched, flushing>>
    /\ UNCHANGED <<cvars, rvars, kvars, bvars>>

\* The loop takes a due handle that was not cancelled and enters _flush.
HandleStart ==
    /\ LoopFree
    /\ \E h \in sched.handles :
        /\ h.when <= now
        /\ sched' = [sched EXCEPT !.handles = @ \ {h}]
    /\ flushing' = [NoFlush EXCEPT !.pc = "entered"]
    /\ UNCHANGED <<qvars, caller>>
    /\ UNCHANGED <<cvars, rvars, kvars, bvars>>

\* _flush on the loop thread, up to "self._callback(events)".
LoopFlushSwap ==
    /\ flushing.pc = "entered"
    /\ flushing' = [pc |-> "put", evs |-> events]
    /\ timer' = NoTimer
    /\ sched' = [sched EXCEPT !.ref = 0]
    /\ events' = <<>>
    /\ UNCHANGED <<now, start, chain, task, running, executed, enqueued, last>>
    /\ UNCHANGED caller
    /\ UNCHANGED <<cvars, rvars, kvars, bvars>>

\* _flush on the loop thread: "self._chain.put_nowait(...)".
LoopFlushPut ==
    /\ flushing.pc = "put"
    /\ chain' = FlushChain(chain, flushing.evs)
    /\ flushing' = NoFlush
    /\ UNCHANGED <<now, start, timer, events, task, running, executed, enqueued, last>>
    /\ UNCHANGED <<sched, caller>>
    /\ UNCHANGED <<cvars, rvars, kvars, bvars>>

\* The clock advances while no call is in progress and no handle is due.
ClockTick ==
    /\ now < MaxTime
    /\ caller = NoCall
    /\ LoopFree
    /\ \A h \in sched.handles : h.when > now
    /\ now' = now + 1
    /\ UNCHANGED <<start, timer, events, chain, task, running, executed, enqueued, last>>
    /\ UNCHANGED tvars
    /\ UNCHANGED <<cvars, rvars, kvars, bvars>>

\* A room's queue, its worker started, fed by the Zulip event thread.
InitQueueThread ==
    /\ ConnIdle
    /\ ThreadIdle
    /\ kind = "stream"
    /\ RoomIdle
    /\ BridgeIdle
    /\ CfgIdle
    /\ now = 0
    /\ start = 0
    /\ timer = NoTimer
    /\ events = <<>>
    /\ chain = <<>>
    /\ task = "get"
    /\ running = <<>>
    /\ executed = <<>>
    /\ enqueued = <<>>
    /\ last = -1

NextQueueThread ==
    \/ ThreadCall
    \/ ThreadCancel
    \/ ThreadLen
    \/ ThreadAppend
    \/ ThreadTest
    \/ ThreadFlushSwap
    \/ ThreadFlushPut
    \/ HandleStart
    \/ LoopFlushSwap
    \/ LoopFlushPut
    \/ ClockTick
    \/ WorkerGet
    \/ CallbackStep
    \/ WorkerDone

SpecQueueThread == InitQueueThread /\ [][NextQueueThread]_vars

\* C1 (as stated): the events handed to the consumer over all flush batches
\* are in the order in which they were enqueued, and the serial worker runs
\* at most one flush batch at a time.
C1_OrderedSerial ==
    /\ Len(running) <= 1
    /\ IsPrefix(executed, enqueued)

\* C2 (as stated): events enqueued each less than 100 ms after the previous
\* one are delivered in exactly one flush call, events spaced farther apart
\* in several, and no event is reordered, duplicated or dropped.
C2_Original ==
    /\ [][WithinWindowOneFlush /\ SpacedSeveralFlushes]_vars
    /\ []NothingLostOrReordered

\* ----------------------------------------------- one room: tables and handlers
\* The organization has one bridged room, a StreamRoom (with its stream id) or
\* a DirectRoom.  Zulip message ids and Matrix event ids are positive
\* integers; 0 stands for None.  Handlers that run without suspension are one
\* step each; _flush_event is one step per await.
MsgIds == 1..MaxMsgs

Topics == {"t1", "t2"}

Emoji == {"tada"}

\* Zulip user 1 is the account the Matrix user "alice" has logged in with.
ZulipUsers == {1, 2}

Senders == {"alice", "bob"}

\* The Matrix event ids that can exist: an inbound event leads to at most
\* two sends.
EvIds == 1..(2 * MaxOps)

\* organization.zulip_puppets.get(sender) is a client, not None.
HasPuppet(sender) == sender = "alice"

\* organization.zulip_puppet_user_mxid.inverse[sender]
PuppetZulipId(sender) == 1

\* dict / bidict: b[k] = v with a value no other key maps to, and del b[k].
Put(f, k, v) == [x \in (DOMAIN f) \cup {k} |-> IF x = k THEN v ELSE f[x]]

Del(f, k) == [x \in (DOMAIN f) \ {k} |-> f[x]]

\* list.remove(x) when x is in the list: the first occurrence goes.
Remove(s, x) ==
    IF x \notin Range(s) THEN s
    ELSE LET i == CHOOSE k \in DOMAIN s : s[k] = x /\ \A j \in 1..(k - 1) : s[j] # x
         IN  SubSeq(s, 1, i - 1) \o SubSeq(s, i + 1, Len(s))

\* bidict.inverse.get(v): the key of v, or 0 (None).
InverseGet(f, v) ==
    IF \E k \in DOMAIN f : f[k] = v THEN CHOOSE k \in DOMAIN f : f[k] = v ELSE 0

\* bidict: b[k] = v raises ValueDuplicationError when another key maps to v.
BiFree(f, k, v) == \A j \in DOMAIN f : f[j] = v => j = k

\* A faulty on_event without the try / except around the handlers.
on_event_propagates_NoExcept(exc) == exc # "none"

\* on_event: "except Exception as e: logging.exception(e)".
on_event_propagates(exc) == exc \notin {"none", "KeyError", "AttributeError"}

\* Room._ensure_thread_for_topic: the event it enqueues, if any.
ensure_thread_for_topic(m, topic) ==
    IF topic \in DOMAIN threads
       THEN <<>>
       ELSE <<QEvent("topic", "stream", m, topic, 0, NoKey)>>

\* Room.send_message for a relayed Zulip message: the events it enqueues.
send_message(target, m, topic) ==
    (IF target = "stream" THEN ensure_thread_for_topic(m, topic) ELSE <<>>)
        \o <<QEvent("message", target, m, topic, 0, NoKey)>>

\* Room.redact: the event it enqueues.
redact(eid) == QEvent("_redact", "", 0, "", eid, NoKey)

\* DirectRoom.relay_zulip_react: the event it enqueues.
relay_zulip_react(eid, key) == QEvent("_zulip_react", "", key.m, "", eid, key)

Handled(op, m, had, priv) ==
    lastOp' = [n |-> lastOp.n + 1, op |-> op, m |-> m, had |-> had, priv |-> priv]

\* on_event, type "message" of a stream: _handle_message.
ZulipStreamMessage(m, t) ==
    /\ kind = "stream"
    /\ lastOp.n < MaxOps
    /\ m <= Cardinality(seen) + 1
    /\ Handled("z_message", m, m \in DOMAIN messages, FALSE)
    /\ seen' = seen \cup {m}
    /\ IF m \in seen \/ m \in DOMAIN messages
          THEN EnqueueOp(<<>>)
          ELSE EnqueueOp(send_message("stream", m, t))
    /\ UNCHANGED <<now, task, running, executed>>
    /\ UNCHANGED <<kind, saved, messages, reactions, threads, inflight, nextEv, mxlog, zlog,
                   raised, ref, faults>>
    /\ UNCHANGED <<tvars, cvars, kvars, bvars>>

\* handle_dm_message for a message of the room's recipients.
ZulipDirectMessage(m) ==
    /\ kind = "direct"
    /\ lastOp.n < MaxOps
    /\ Handled("z_message", m, m \in DOMAIN messages, TRUE)
    /\ IF m \in seen \/ m \in DOMAIN messages
          THEN EnqueueOp(<<>>)
          ELSE EnqueueOp(send_message("direct", m, ""))
    /\ UNCHANGED <<now, task, running, executed>>
    /\ UNCHANGED <<kind, saved, messages, reactions, threads, seen, inflight, nextEv, mxlog,
                   zlog, raised, ref, faults>>
    /\ UNCHANGED <<tvars, cvars, kvars, bvars>>

\* on_event, type "update_message" with orig_subject and propagate_mode
\* change_all: _handle_update_message.
ZulipRenameTopic(t, t2) ==
    /\ kind = "stream"
    /\ lastOp.n < MaxOps
    /\ t # t2
    /\ Handled("z_rename", 0, t \in DOMAIN threads, FALSE)
    /\ threads' = IF t \in DOMAIN threads
                     THEN Put(Del(threads, t), t2, threads[t])
                     ELSE threads
    /\ UNCHANGED qvars
    /\ UNCHANGED <<kind, saved, messages, reactions, seen, inflight, nextEv, mxlog, zlog,
                   raised, ref, faults>>
    /\ UNCHANGED <<tvars, cvars, kvars, bvars>>

\* on_event, type "reaction": _handle_reaction.  Zulip sends a remove only
\* for a reaction that was added.
ZulipReaction(op, m, e, u) ==
    LET key == [m |-> m, e |-> e, u |-> u]
        found == m \in DOMAIN messages          \* _get_room_by_message_id
        eid == InverseGet(reactions, key)
    IN  /\ lastOp.n < MaxOps
        /\ op = "remove" => key \in ref
        /\ Handled(IF op = "add" THEN "z_react" ELSE "z_unreact", m, found, FALSE)
        /\ ref' = IF op = "remove" THEN ref \ {key}
                  ELSE IF found THEN ref \cup {key} ELSE ref
        /\ IF ~found
              THEN EnqueueOp(<<>>) /\ reactions' = reactions
           ELSE IF op = "add"
              THEN /\ EnqueueOp(<<relay_zulip_react(messages[m], key)>>)
                   /\ reactions' = reactions
           ELSE IF eid = 0
              THEN EnqueueOp(<<>>) /\ reactions' = reactions
           ELSE /\ EnqueueOp(<<redact(eid)>>)
                /\ reactions' = Del(reactions, eid)
        /\ UNCHANGED <<now, task, running, executed>>
        /\ UNCHANGED <<kind, saved, messages, threads, seen, inflight, nextEv, mxlog, zlog,
                       raised, faults>>
        /\ UNCHANGED <<tvars, cvars, kvars, bvars>>

\* on_event, type "delete_message": _handle_delete_message.  The event of a
\* direct message (priv) has no stream_id; the event of a message of a
\* stream names that stream.
ZulipDeleteMessage(m, priv) ==
    LET had == m \in DOMAIN messages
        exc == IF priv THEN "KeyError" ELSE "none"   \* event["stream_id"]
        room == ~priv /\ kind = "stream"             \* _get_room_by_stream_id
    IN  /\ lastOp.n < MaxOps
        /\ had => (priv <=> kind = "direct")
        /\ Handled("z_delete", m, had, priv)
        /\ raised' = (raised \/ on_event_propagates(exc))
        /\ IF exc = "none" /\ had /\ room
              THEN /\ EnqueueOp(<<redact(messages[m])>>)
                   /\ messages' = Del(messages, m)
              ELSE /\ EnqueueOp(<<>>)
                   /\ messages' = messages
        /\ UNCHANGED <<now, task, running, executed>>
        /\ UNCHANGED <<kind, saved, reactions, threads, seen, inflight, nextEv, mxlog, zlog,
                       ref, faults>>
        /\ UNCHANGED <<tvars, cvars, kvars, bvars>>

\* A Zulip API call of a Matrix handler and its result.
ZCall(op, m, e, ok) == [op |-> op, m |-> m, e |-> e, ok |-> ok]

\* An external call may fail while the budget of failures lasts.
Outcomes == IF faults < MaxFaults THEN BOOLEAN ELSE {TRUE}

\* m.room.redaction in the room: DirectRoom.on_mx_redaction.  An exception
\* it raises is swallowed by the dispatcher.
MxRedaction(target, sender, ok) ==
    LET had == \E k \in DOMAIN messages : messages[k] = target
        m == InverseGet(messages, target)
        isReact == target \in DOMAIN reactions
        key == IF isReact THEN [reactions[target] EXCEPT !.u = PuppetZulipId(sender)]
               ELSE NoKey
        called == ConnectedGuard(org) /\ (had \/ isReact) /\ HasPuppet(sender)
    IN  /\ lastOp.n < MaxOps
        /\ target < nextEv
        /\ ok \in Outcomes
        /\ called \/ ok
        /\ Handled(IF isReact /\ ~had THEN "mx_unreact" ELSE "mx_redact", m, had, FALSE)
        /\ faults' = IF ok THEN faults ELSE faults + 1
        /\ ref' = IF called /\ ~had /\ key = reactions[target]   \* the matching remove
                     THEN ref \ {key} ELSE ref
        /\ zlog' = IF ~called THEN zlog
                   ELSE IF had THEN Append(zlog, ZCall("delete_message", m, "", ok))
                   ELSE Append(zlog, ZCall("remove_reaction", key.m, key.e, ok))
        /\ messages' = IF called /\ had THEN Del(messages, m) ELSE messages
        /\ reactions' = IF called /\ ~had /\ InverseGet(reactions, key) # 0
                           THEN Del(reactions, InverseGet(reactions, key))
                           ELSE reactions
        /\ UNCHANGED qvars
        /\ UNCHANGED <<kind, saved, threads, seen, inflight, nextEv, mxlog, raised>>
        /\ UNCHANGED <<tvars, cvars, kvars, bvars>>

\* m.reaction (an annotation) in the room: DirectRoom.on_mx_reaction.
MxReaction(target, e, sender, ok) ==
    LET m == InverseGet(messages, target)
        key == [m |-> m, e |-> e, u |-> PuppetZulipId(sender)]
        called == ConnectedGuard(org) /\ HasPuppet(sender) /\ m # 0
        old == InverseGet(reactions, key)
    IN  /\ lastOp.n < MaxOps
        /\ target < nextEv
        /\ ok \in Outcomes
        /\ called \/ ok
        /\ Handled("mx_react", m, m # 0, FALSE)
        /\ faults' = IF ok THEN faults ELSE faults + 1
        /\ zlog' = IF called THEN Append(zlog, ZCall("add_reaction", m, e, ok)) ELSE zlog
        /\ IF called /\ ok
              THEN /\ reactions' = Put(IF old # 0 THEN Del(reactions, old) ELSE reactions,
                                       nextEv, key)
                   /\ nextEv' = nextEv + 1
                   /\ ref' = ref \cup {key}
              ELSE UNCHANGED <<reactions, nextEv, ref>>
        /\ UNCHANGED qvars
        /\ UNCHANGED <<kind, saved, messages, threads, seen, inflight, mxlog, raised>>
        /\ UNCHANGED <<tvars, cvars, kvars, bvars>>

\* A Matrix API call that returned: what was sent and the event id it got.
MxCall(op, ev, rel, eid) ==
    [op |-> op, type |-> ev.type, target |-> ev.target, m |-> ev.m,
     topic |-> ev.topic, rel |-> rel, eid |-> eid]

\* The event loop has nothing to run and sleeps until the pending timer
\* handle is due.
LoopSleep ==
    /\ timer # NoTimer
    /\ timer > now
    /\ timer <= MaxTime
    /\ now' = timer
    /\ UNCHANGED <<start, timer, events, chain, task, running, executed, enqueued, last>>
    /\ UNCHANGED <<tvars, cvars, rvars, kvars, bvars>>

\* _flush_event from its start to its first await, or to its return.
FlushStart(ev) ==
    CASE ev.type = "message" /\ ev.target = "stream" ->
            IF ev.topic \in DOMAIN threads
               THEN [at |-> "name", ev |-> ev, rel |-> threads[ev.topic]]
               ELSE NoFlight                     \* "Thread not created for topic"
      [] ev.type \in {"message", "topic"} -> [at |-> "name", ev |-> ev, rel |-> 0]
      [] ev.type = "_redact" -> [at |-> "redact", ev |-> ev, rel |-> 0]
      [] ev.type = "_zulip_react" ->
            IF InverseGet(reactions, ev.key) # 0
               THEN NoFlight                     \* already relayed
               ELSE [at |-> "react", ev |-> ev, rel |-> 0]
      [] ev.type = "_join" ->
            IF ev.target \in Range(members)
               THEN NoFlight
               ELSE [at |-> "join", ev |-> ev, rel |-> 0]
      [] ev.type = "_leave" ->
            IF ev.target \in Range(members)
               THEN [at |-> "leave", ev |-> ev, rel |-> 0]
               ELSE NoFlight
      [] ev.type = "_ensure_zulip_user_id" -> [at |-> "ensure", ev |-> ev, rel |-> 0]

\* Room._flush_events takes the next event of the running callback and
\* calls _flush_event, which runs to its first await.
FlushBegin ==
    /\ inflight = NoFlight
    /\ \E i \in DOMAIN running :
        /\ running[i] # <<>>
        /\ executed' = Append(executed, Head(running[i]))
        /\ running' = [running EXCEPT ![i] = Tail(running[i])]
        /\ inflight' = FlushStart(Head(running[i]))
        /\ lazy_members' =
              IF Head(running[i]).type = "_leave" /\ lazy_members.on
                 THEN [lazy_members EXCEPT !.ids = @ \ {Head(running[i]).target}]
                 ELSE lazy_members
    /\ UNCHANGED <<now, start, timer, events, chain, task, enqueued, last>>
    /\ UNCHANGED <<kind, saved, messages, reactions, threads, seen, nextEv, mxlog, zlog,
                   raised, ref, faults, lastOp>>
    /\ UNCHANGED <<member_sync, members, mxin, synced, registered, ovars>>
    /\ UNCHANGED <<tvars, cvars, kvars>>

\* The await of the suspended _flush_event returns and the handler runs to
\* its next await or to its end.  A join or leave call has two steps: the
\* homeserver carries it out ("joined", "left"), which is when it emits the
\* m.room.member event, and then the call returns to _join / _flush_event.
FlushResume ==
    LET ev == inflight.ev
        at == inflight.at
        sent == MxCall(IF at = "send" THEN "send" ELSE at, ev, inflight.rel, nextEv)
        insert == at = "react" /\ BiFree(reactions, nextEv, ev.key)
    IN  /\ at # "none"
        /\ inflight' =
              IF at = "join" THEN [inflight EXCEPT !.at = "joined"]
              ELSE IF at = "leave" THEN [inflight EXCEPT !.at = "left"]
              ELSE IF at = "name" /\ ~(ev.type = "topic" /\ ev.topic \in DOMAIN threads)
                 THEN [inflight EXCEPT !.at = "send"]
              ELSE IF at = "send" \/ insert
                 THEN [inflight EXCEPT !.at = "save"]
              ELSE NoFlight
        /\ mxlog' = IF at \in {"send", "react"} THEN Append(mxlog, sent)
                    ELSE IF at = "redact" THEN Append(mxlog, MxCall(at, ev, 0, ev.eid))
                    ELSE IF at \in {"join", "leave"} THEN Append(mxlog, MxCall(at, ev, 0, 0))
                    ELSE mxlog
        /\ mxin' = IF at \in {"join", "leave"}
                      THEN Append(mxin, [user |-> ev.target, membership |-> at])
                      ELSE mxin
        /\ members' = IF at = "joined" THEN Append(members, ev.target)
                      ELSE IF at = "left" THEN Remove(members, ev.target)
                      ELSE members
        /\ nextEv' = IF at \in {"send", "react"} THEN nextEv + 1 ELSE nextEv
        /\ threads' = IF at = "send" /\ ev.type = "topic"
                         THEN Put(threads, ev.topic, nextEv) ELSE threads
        /\ messages' = IF at = "send" /\ ev.type = "message"
                          THEN Put(messages, ev.m, nextEv) ELSE messages
        /\ reactions' = IF insert THEN Put(reactions, nextEv, ev.key) ELSE reactions
        /\ zlog' = IF at = "save" /\ ev.type = "message" /\ org.zulip # "none"
                      THEN Append(zlog, ZCall("flag_read", ev.m, "", TRUE))
                      ELSE zlog
        /\ saved' = IF at = "save"
                       THEN [messages |-> messages, reactions |-> reactions,
                             threads |-> threads]
                       ELSE saved
        /\ UNCHANGED qvars
        /\ UNCHANGED <<kind, seen, raised, ref, faults, lastOp>>
        /\ UNCHANGED <<member_sync, lazy_members, synced, registered, ovars>>
        /\ UNCHANGED <<tvars, cvars, kvars>>

\* A faulty _flush_events without the try around each event: the exception
\* ends the callback and the rest of its batch is lost.
FlushRaise_EndsBatch ==
    /\ inflight # NoFlight
    /\ faults < MaxFaults
    /\ faults' = faults + 1
    /\ inflight' = NoFlight
    /\ running' = [i \in DOMAIN running |-> <<>>]
    /\ UNCHANGED <<now, start, timer, events, chain, task, executed, enqueued, last>>
    /\ UNCHANGED <<kind, saved, messages, reactions, threads, seen, nextEv, mxlog, zlog,
                   raised, ref, lastOp>>
    /\ UNCHANGED <<tvars, cvars, kvars, bvars>>

\* The await of the suspended _flush_event raises: _flush_events logs
\* "Queued event failed" and goes on with the next event.
FlushRaise ==
    /\ inflight # NoFlight
    /\ faults < MaxFaults
    /\ faults' = faults + 1
    /\ inflight' = NoFlight
    /\ UNCHANGED qvars
    /\ UNCHANGED <<kind, saved, messages, reactions, threads, seen, nextEv, mxlog, zlog,
                   raised, ref, lastOp>>
    /\ UNCHANGED <<tvars, cvars, kvars, bvars>>

\* A room of a connected organization, its queue worker started.
InitRoom ==
    /\ now = 0 /\ start = 0 /\ timer = NoTimer /\ last = -1
    /\ events = <<>> /\ chain = <<>> /\ running = <<>>
    /\ executed = <<>> /\ enqueued = <<>>
    /\ task = "get"
    /\ ThreadIdle
    /\ org = [OrgInit EXCEPT !.connected = TRUE, !.disconnect = FALSE, !.zulip = "live"]
    /\ pc = [p \in Tasks |-> "idle"]
    /\ orgEnv = [creds |-> TRUE, inConfig |-> TRUE, ownerIn |-> TRUE]
    /\ nfail = 0
    /\ discAsked = FALSE
    /\ lastConnect = [p \in Tasks |-> "none"]
    /\ kind \in {"stream", "direct"}
    /\ RoomIdle
    /\ BridgeIdle
    /\ CfgIdle

\* StreamRoom._relay_message through the sender's puppet client, with the
\* long-poll thread inside it: Zulip delivers the message event of the new
\* message to the bot while the loop thread is still in
\* client.send_message(request), so _handle_message runs before
\* "self.messages[str(result["id"])] = event.event_id".
MxMessageWhileDelivered(sender, thread, body, m) ==
    LET known == \E t \in DOMAIN threads : threads[t] = thread
        topic == IF known THEN CHOOSE t \in DOMAIN threads : threads[t] = thread
                 ELSE body
    IN  /\ kind = "stream"
        /\ ConnectedGuard(org)
        /\ HasPuppet(sender)
        /\ lastOp.n < MaxOps
        /\ thread # 0 /\ thread < nextEv
        /\ m \notin seen /\ m \notin DOMAIN messages
        /\ \A j \in 1..(m - 1) : j \in seen \/ j \in DOMAIN messages
        /\ Handled("mx_message", m, TRUE, FALSE)
        /\ nextEv' = nextEv + 1
        /\ threads' = IF known THEN threads ELSE Put(threads, body, thread)
        /\ zlog' = Append(zlog, ZCall("send_message", m, "", TRUE))
        /\ seen' = seen \cup {m}
        /\ EnqueueOp(<<QEvent("message", "stream", m, topic, 0, NoKey)>>)
        /\ messages' = Put(messages, m, nextEv)
        /\ saved' = [messages |-> messages', reactions |-> reactions,
                     threads |-> threads']
        /\ UNCHANGED <<now, task, running, executed>>
        /\ UNCHANGED <<kind, reactions, inflight, mxlog, raised, ref, faults>>
        /\ UNCHANGED <<tvars, cvars, kvars, bvars>>

\* A stream room: messages of the stream, topic renames, and messages
\* written in its threads by a Matrix user with a puppet client.
InitThread == InitRoom /\ kind = "stream"

NextThread ==
    \/ \E m \in MsgIds, t \in Topics : ZulipStreamMessage(m, t)
    \/ \E t, t2 \in Topics : ZulipRenameTopic(t, t2)
    \/ \E sender \in Senders, thread \in 1..MaxMsgs, body \in Topics, m \in MsgIds :
          MxMessageWhileDelivered(sender, thread, body, m)
    \/ LoopSleep
    \/ TimerFire
    \/ WorkerGet
    \/ FlushBegin
    \/ FlushResume
    \/ FlushRaise
    \/ WorkerDone

SpecThread == InitThread /\ [][NextThread]_vars

\* A room with relayed messages and reactions from both sides.
NextReact ==
    \/ \E m \in MsgIds, t \in Topics : ZulipStreamMessage(m, t)
    \/ \E m \in MsgIds : ZulipDirectMessage(m)
    \/ \E op \in {"add", "remove"}, m \in MsgIds, e \in Emoji, u \in ZulipUsers :
          ZulipReaction(op, m, e, u)
    \/ \E target \in EvIds, e \in Emoji, sender \in Senders, ok \in BOOLEAN :
          MxReaction(target, e, sender, ok)
    \/ \E target \in EvIds, sender \in Senders, ok \in BOOLEAN :
          MxRedaction(target, sender, ok)
    \/ LoopSleep
    \/ TimerFire
    \/ WorkerGet
    \/ FlushBegin
    \/ FlushResume
    \/ FlushRaise
    \/ WorkerDone

SpecReact == InitRoom /\ [][NextReact]_vars

\* A room with relayed messages and deletions from both sides.
NextDelete ==
    \/ \E m \in MsgIds, t \in Topics : ZulipStreamMessage(m, t)
    \/ \E m \in MsgIds : ZulipDirectMessage(m)
    \/ \E m \in MsgIds, priv \in BOOLEAN : ZulipDeleteMessage(m, priv)
    \/ \E target \in EvIds, sender \in Senders, ok \in BOOLEAN :
          MxRedaction(target, sender, ok)
    \/ LoopSleep
    \/ TimerFire
    \/ WorkerGet
    \/ FlushBegin
    \/ FlushResume
    \/ FlushRaise
    \/ WorkerDone

SpecDelete == InitRoom /\ [][NextDelete]_vars

\* ------------------------------------------------------ claims on the room
\* The queue of the room has nothing buffered, queued or running.
RoomQuiet ==
    /\ events = <<>>
    /\ chain = <<>>
    /\ running = <<>>
    /\ inflight = NoFlight

\* C3 (as stated): whenever the queue has been flushed, and no external call
\* has failed, the reactions table holds exactly the reactions of the
\* reference model, i.e. those added and not yet removed, whatever the
\* interleaving of the reaction events with the flushes was.
C3_ReactionsMatchReference ==
    (RoomQuiet /\ faults = 0) => {reactions[e] : e \in DOMAIN reactions} = ref

\* The Matrix send of an event of the given type that returned.
IsSend(c, type) == c.op = "send" /\ c.type = type

\* A stream message was enqueued in this step: if its topic was not in
\* threads, its topic announcement was enqueued right before it.
AnnouncementFirst ==
    (lastOp'.n # lastOp.n /\ lastOp'.op = "z_message" /\ enqueued' # enqueued)
        => LET new == SubSeq(enqueued', Len(enqueued) + 1, Len(enqueued'))
               msg == new[Len(new)]
           IN  msg.topic \notin DOMAIN threads
                   => /\ Len(new) = 2
                      /\ new[1].type = "topic"
                      /\ new[1].topic = msg.topic

\* The message event msg was sent with an m.thread relation to the event id
\* of the one announcement of its topic that was sent before it, and that
\* thread root is recorded in threads.
ThreadedSent(msg) ==
    \E j \in DOMAIN mxlog :
        /\ IsSend(mxlog[j], "message")
        /\ mxlog[j].m = msg.m
        /\ mxlog[j].rel # 0
        /\ \E k \in 1..(j - 1) :
              /\ IsSend(mxlog[k], "topic")
              /\ mxlog[k].eid = mxlog[j].rel
        /\ Cardinality({k \in DOMAIN mxlog :
                           IsSend(mxlog[k], "topic") /\ mxlog[k].eid = mxlog[j].rel}) = 1
        /\ \E t \in DOMAIN threads : threads[t] = mxlog[j].rel

\* enqueued[i] is a topic announcement and enqueued[i + 1] the first message
\* of that topic.
FirstOfTopic(i) ==
    /\ enqueued[i].type = "topic"
    /\ enqueued[i + 1].type = "message"
    /\ enqueued[i + 1].m = enqueued[i].m

\* C7 (as stated): the first stream message of a topic that is not in threads
\* is enqueued after its topic announcement; once the queue has flushed (no
\* external call having failed) one announcement was sent, its event id was
\* recorded in threads before the message was sent, the message was sent
\* with an m.thread relation to it, and the thread root is in threads; no
\* stream message is ever sent without a thread relation.
C7_FirstMessageThreaded ==
    /\ [][AnnouncementFirst]_vars
    /\ [](\A j \in DOMAIN mxlog :
            (IsSend(mxlog[j], "message") /\ mxlog[j].target = "stream")
                => mxlog[j].rel # 0)
    /\ []((RoomQuiet /\ faults = 0)
            => \A i \in 1..(Len(enqueued) - 1) :
                  FirstOfTopic(i) => ThreadedSent(enqueued[i + 1]))

\* This step handled the delivery of a deletion of a message: a Zulip
\* delete_message event or a Matrix redaction of an event that is not a
\* reaction.
DeleteDelivered ==
    lastOp'.n # lastOp.n /\ lastOp'.op \in {"z_delete", "mx_redact"}

\* The step made exactly one call towards the other side for the message:
\* a redaction enqueued for Matrix, or a delete_message call to Zulip.
OneOutbound ==
    IF lastOp'.op = "z_delete"
       THEN /\ zlog' = zlog
            /\ enqueued' = Append(enqueued, redact(messages[lastOp'.m]))
       ELSE /\ enqueued' = enqueued
            /\ Len(zlog') = Len(zlog) + 1
            /\ zlog'[Len(zlog')].op = "delete_message"
            /\ zlog'[Len(zlog')].m = lastOp'.m

NoOutbound == enqueued' = enqueued /\ zlog' = zlog /\ mxlog' = mxlog

\* C9 (as stated): a deletion delivered from either side for a message that
\* has an entry in the message table makes exactly one redaction / delete
\* call towards the other side and removes the entry, so that a second
\* delivery finds no entry; a deletion without an entry makes no call.
C9_DeletePropagatedOnce ==
    [][DeleteDelivered =>
          IF lastOp'.had
             THEN OneOutbound /\ lastOp'.m \notin DOMAIN messages'
             ELSE NoOutbound]_vars

\* C10: a Zulip delete_message event of a direct message whose id is not in
\* the messages table enqueues nothing, makes no outbound call, leaves the
\* queue and every table as they were, and no exception leaves on_event.
C10_UnknownDirectDeleteDropped ==
    [][(lastOp'.n # lastOp.n /\ lastOp'.op = "z_delete" /\ lastOp'.priv
            /\ ~lastOp'.had)
          => /\ NoOutbound
             /\ UNCHANGED <<events, chain, timer, messages, reactions, threads>>
             /\ ~raised']_vars

\* C10 witness: such an event was handled by a direct room that has another
\* message in its table.
C10_Witness ==
    /\ kind = "direct"
    /\ lastOp.op = "z_delete"
    /\ lastOp.priv
    /\ ~lastOp.had
    /\ lastOp.m \notin DOMAIN messages
    /\ DOMAIN messages # {}
    /\ ~raised

\* --------------------------------------- persistence: to_config / from_config
\* A room object is a record of the fields its class declares and a command
\* or handler can set; "" stands for None.  The blob is what to_config()
\* returns, stored by save(); at startup the room is built anew (init())
\* and from_config(blob) is applied to it.
Amounts == (0..MaxAmount) \cup {BackfillDefault}

\* OrganizationRoom.init()
OrgDefaults ==
    [type |-> "OrganizationRoom", name |-> "", max_backfill_amount |-> BackfillDefault,
     relay_moderation |-> TRUE, zulip_puppet_login |-> <<>>]

\* Room.__init__, UnderOrganizationRoom.init(), DirectRoom.init()
DirectDefaults ==
    [type |-> "DirectRoom", name |-> "", organization_id |-> "", media |-> <<>>,
     max_backfill_amount |-> 0, messages |-> <<>>, reactions |-> <<>>,
     threads |-> <<>>, send_read_receipt |-> TRUE]

Defaults(type) == IF type = "OrganizationRoom" THEN OrgDefaults ELSE DirectDefaults

\* frozenset(request.items()) of a reaction, and list(v) of it in the blob.
KeyItems(key) == {<<"message_id", key.m>>, <<"emoji_name", key.e>>, <<"user_id", key.u>>}

\* frozenset({l[0]: l[1] for l in v}.items()), read back as a signature.
ItemsKey(items) ==
    [m |-> (CHOOSE l \in items : l[1] = "message_id")[2],
     e |-> (CHOOSE l \in items : l[1] = "emoji_name")[2],
     u |-> (CHOOSE l \in items : l[1] = "user_id")[2]]

\* to_config() of the two classes.
to_config(r) ==
    IF r.type = "OrganizationRoom"
       THEN [type |-> r.type, name |-> r.name,
             max_backfill_amount |-> r.max_backfill_amount,
             zulip_puppet_login |-> r.zulip_puppet_login]
       ELSE [type |-> r.type, threads |-> r.threads,
             send_read_receipt |-> r.send_read_receipt,
             organization_id |-> r.organization_id, name |-> r.name,
             media |-> SubSeq(r.media, 1, IF Len(r.media) < MediaKept
                                             THEN Len(r.media) ELSE MediaKept),
             max_backfill_amount |-> r.max_backfill_amount,
             messages |-> r.messages,
             reactions |-> [k \in DOMAIN r.reactions |-> KeyItems(r.reactions[k])]]

\* OrganizationRoom.from_config: 'if "max_backfill_amount" in config and
\* config["max_backfill_amount"]' is false for the amount 0.
KeepsDefault(n) == n = 0

\* from_config(config) applied to the room object r.
from_config(r, c) ==
    IF r.type = "OrganizationRoom"
       THEN [r EXCEPT !.name = c.name,
                      !.max_backfill_amount =
                          IF KeepsDefault(c.max_backfill_amount) THEN @
                          ELSE c.max_backfill_amount,
                      !.zulip_puppet_login =
                          IF DOMAIN c.zulip_puppet_login = {} THEN @
                          ELSE c.zulip_puppet_login]
       ELSE [r EXCEPT !.threads = c.threads,
                      !.send_read_receipt = c.send_read_receipt,
                      !.organization_id = c.organization_id,
                      !.name = c.name,
                      !.media = c.media,
                      !.max_backfill_amount = c.max_backfill_amount,
                      !.messages = IF DOMAIN c.messages = {} THEN @ ELSE c.messages,
                      !.reactions =
                          IF DOMAIN c.reactions = {} THEN @
                          ELSE [k \in DOMAIN c.reactions |-> ItemsKey(c.reactions[k])]]

\* Room.save(): the blob becomes to_config() of the room.
Saved(r) == live' = r /\ blob' = to_config(r)

Running == restored = NoRoom

\* BACKFILL <amount> in the room: cmd_backfill of either class.
CfgBackfill(n) ==
    /\ Running
    /\ Saved([live EXCEPT !.max_backfill_amount = n])
    /\ UNCHANGED <<restored, nloads>>
    /\ UNCHANGED <<qvars, tvars, cvars, rvars, bvars>>

\* RELAYMODERATION --on / --off in the organization room.
CfgRelayModeration(b) ==
    /\ Running
    /\ live.type = "OrganizationRoom"
    /\ Saved([live EXCEPT !.relay_moderation = b])
    /\ UNCHANGED <<restored, nloads>>
    /\ UNCHANGED <<qvars, tvars, cvars, rvars, bvars>>

\* A Matrix user logs in to Zulip: the login is kept in zulip_puppet_login.
CfgPuppetLogin(sender) ==
    /\ Running
    /\ live.type = "OrganizationRoom"
    /\ Saved([live EXCEPT !.zulip_puppet_login = Put(@, sender, "key")])
    /\ UNCHANGED <<restored, nloads>>
    /\ UNCHANGED <<qvars, tvars, cvars, rvars, bvars>>

\* _flush_event of a relayed message: messages[id] = event_id, save().
CfgMessage(m) ==
    /\ Running
    /\ live.type = "DirectRoom"
    /\ m \notin DOMAIN live.messages
    /\ Saved([live EXCEPT !.messages = Put(@, m, m)])
    /\ UNCHANGED <<restored, nloads>>
    /\ UNCHANGED <<qvars, tvars, cvars, rvars, bvars>>

\* _flush_event of a relayed reaction: reactions[event_id] = signature, save().
CfgReaction(m, u) ==
    /\ Running
    /\ live.type = "DirectRoom"
    /\ m \in DOMAIN live.messages
    /\ DOMAIN live.reactions = {}
    /\ Saved([live EXCEPT !.reactions = Put(@, MaxMsgs + 1, [m |-> m, e |-> 0, u |-> u])])
    /\ UNCHANGED <<restored, nloads>>
    /\ UNCHANGED <<qvars, tvars, cvars, rvars, bvars>>

\* Startup: the room is constructed and from_config(blob) is applied.
CfgLoad ==
    /\ nloads = 0
    /\ restored' = from_config(Defaults(blob.type), blob)
    /\ nloads' = 1
    /\ UNCHANGED <<live, blob>>
    /\ UNCHANGED <<qvars, tvars, cvars, rvars, bvars>>

\* from_config(blob) is applied to the restored room a second time.
CfgLoadAgain ==
    /\ nloads = 1
    /\ restored' = from_config(restored, blob)
    /\ nloads' = 2
    /\ UNCHANGED <<live, blob>>
    /\ UNCHANGED <<qvars, tvars, cvars, rvars, bvars>>

\* A room right after its creation, which ends with save().
InitConfig ==
    /\ QueueIdle
    /\ ConnIdle
    /\ kind = "stream"
    /\ RoomIdle
    /\ BridgeIdle
    /\ live \in {[OrgDefaults EXCEPT !.name = "org"]}
          \cup {[DirectDefaults EXCEPT !.name = "dm", !.organization_id = "org",
                                       !.max_backfill_amount = n] : n \in Amounts}
    /\ blob = to_config(live)
    /\ restored = NoRoom
    /\ nloads = 0

NextConfig ==
    \/ \E n \in Amounts : CfgBackfill(n)
    \/ \E b \in BOOLEAN : CfgRelayModeration(b)
    \/ \E sender \in Senders : CfgPuppetLogin(sender)
    \/ \E m \in MsgIds : CfgMessage(m)
    \/ \E m \in MsgIds, u \in ZulipUsers : CfgReaction(m, u)
    \/ CfgLoad
    \/ CfgLoadAgain

SpecConfig == InitConfig /\ [][NextConfig]_vars

\* ------------------------------------------------- claims on persistence
\* C8 (as stated): the room built from the blob has every declared field at
\* the value it had when the blob was saved, for every value the field can
\* take, and applying the same blob a second time changes nothing.
C8_RoundTrip ==
    /\ [](nloads >= 1 => restored = live)
    /\ [][(nloads = 1 /\ nloads' = 2) => restored' = restored]_vars

\* ------------------------------------------------ backfill and live delivery
\* _connect: "self.zulip_handler = ZulipEventHandler(self)": every connect
\* makes a new handler, whose set of seen message ids is empty.
NewHandler ==
    /\ kind = "stream"
    /\ lastOp.n < MaxOps
    /\ Handled("connect", 0, FALSE, FALSE)
    /\ seen' = {}
    /\ UNCHANGED qvars
    /\ UNCHANGED <<kind, saved, messages, reactions, threads, inflight, nextEv, mxlog, zlog,
                   raised, ref, faults>>
    /\ UNCHANGED <<tvars, cvars, kvars, bvars>>

\* The ids of a get_messages result, oldest first.
IdSeq(ms) == [i \in 1..Cardinality(ms) |->
                 CHOOSE m \in ms : Cardinality({x \in ms : x < m}) = i - 1]

\* StreamRoom.backfill_messages: the loop over result["messages"], each
\* message not in the room's table going to backfill_message, that is
\* _handle_message.  tf gives the topic of each message.
RECURSIVE BackfillEvents(_, _)
BackfillEvents(ids, tf) ==
    IF ids = <<>> THEN <<>>
    ELSE (IF Head(ids) \in DOMAIN messages \/ Head(ids) \in seen
             THEN <<>>
             ELSE send_message("stream", Head(ids), tf[Head(ids)]))
         \o BackfillEvents(Tail(ids), tf)

\* _on_connect reaches backfill_messages of the stream room; get_messages
\* returns the messages ms of the stream.
Backfill(ms, tf) ==
    /\ kind = "stream"
    /\ lastOp.n < MaxOps
    /\ ms # {}
    /\ Handled("backfill", 0, ms \subseteq DOMAIN messages, FALSE)
    /\ seen' = seen \cup (ms \ DOMAIN messages)
    /\ EnqueueOp(BackfillEvents(IdSeq(ms), tf))
    /\ UNCHANGED <<now, task, running, executed>>
    /\ UNCHANGED <<kind, saved, messages, reactions, threads, inflight, nextEv, mxlog, zlog,
                   raised, ref, faults>>
    /\ UNCHANGED <<tvars, cvars, kvars, bvars>>

\* The long-poll listener delivers the event of a new stream message; its
\* event queue delivers each message once.
LiveStreamMessage(m, t) ==
    /\ \A i \in DOMAIN enqueued : enqueued[i].m # m
    /\ ZulipStreamMessage(m, t)

NextBackfill ==
    \/ \E m \in MsgIds, t \in Topics : LiveStreamMessage(m, t)
    \/ NewHandler
    \/ \E ms \in SUBSET MsgIds, tf \in [MsgIds -> Topics] : Backfill(ms, tf)
    \/ LoopSleep
    \/ TimerFire
    \/ WorkerGet
    \/ FlushBegin
    \/ FlushResume
    \/ FlushRaise
    \/ WorkerDone

SpecBackfill == InitThread /\ [][NextBackfill]_vars

\* C11 (as stated): whatever the interleaving of backfill runs and live
\* delivery, each Zulip message id is sent to the Matrix room at most once.
C11_RelayedAtMostOnce ==
    \A m \in MsgIds :
        Cardinality({j \in DOMAIN mxlog :
                        IsSend(mxlog[j], "message") /\ mxlog[j].m = m}) <= 1


\* ------------------------------------------------ members of a stream room
\* BridgeAppService.get_mxid_from_zulip_user_id for the organization "org"
\* with the puppet namespace "@zulip_.*".
get_mxid_from_zulip_user_id(z) ==
    CASE z = 1 -> "@zulip_org_1"
      [] z = 2 -> "@zulip_org_2"
      [] z = Profile -> "@zulip_org_3"

\* name.startswith("@" + puppet_prefix) and server == server_name.  The
\* appservice account "@zulip_bridge" lies in the namespace, as a
\* registration may have it; the owner "@alice" does not.
IsPuppetName(u) == u # "@alice"

\* A faulty guard that protects nobody.
NeverRemoved_Nobody(u) == FALSE

\* "user_id == self.serv.user_id or user_id == self.user_id" of
\* _remove_puppet, and "never remove us or appservice" of sync_zulip_members.
NeverRemoved(u) == u = "@zulip_bridge" \/ u = "@alice"

\* sync_zulip_members: the loop over the subscribers.
RECURSIVE SyncLoop(_, _)
SyncLoop(subs, acc) ==
    IF subs = <<>> THEN acc
    ELSE LET z == Head(subs)
             mx == get_mxid_from_zulip_user_id(z)
         IN  SyncLoop(Tail(subs),
                 IF mx \in Range(acc.rem) THEN [acc EXCEPT !.rem = Remove(@, mx)]
                 ELSE IF z = Profile THEN acc
                 ELSE [acc EXCEPT
                         !.add = IF mx \in Range(members) THEN @ ELSE Append(@, mx),
                         !.lazy = IF member_sync # "off" THEN @ \cup {mx} ELSE @])

\* StreamRoom.sync_zulip_members(subscribers).  _add_puppet enqueues
\* _ensure_zulip_user_id and _join, _remove_puppet enqueues _leave, whose
\* reason travels in the field "topic".
SyncZulipMembers(S) ==
    LET acc == SyncLoop(IdSeq(S), [rem |-> SelectSeq(members, IsPuppetName),
                                   add |-> <<>>, lazy |-> {}])
        rem1 == IF NeverRemoved("@zulip_bridge")
                   THEN Remove(acc.rem, "@zulip_bridge") ELSE acc.rem
        rem == IF NeverRemoved("@alice") THEN Remove(rem1, "@alice") ELSE rem1
        joins == Flatten([i \in DOMAIN acc.add |->
                    <<QEvent("_ensure_zulip_user_id", acc.add[i], 0, "", 0, NoKey),
                      QEvent("_join", acc.add[i], 0, "", 0, NoKey)>>])
        leaves == Flatten([i \in DOMAIN rem |->
                    IF NeverRemoved(rem[i]) THEN <<>>
                    ELSE <<QEvent("_leave", rem[i], 0, "Unsubcribed from stream", 0,
                                  NoKey)>>])
    IN  /\ kind = "stream"
        /\ 1 \in rooms                       \* _sync_all_room_members: rooms.get
        /\ lastOp.n < MaxSyncs
        /\ Handled("sync", 0, FALSE, FALSE)
        /\ lazy_members' = [on |-> member_sync # "off", ids |-> acc.lazy]
        /\ synced' = S
        /\ EnqueueOp(joins \o leaves)
        /\ UNCHANGED <<now, task, running, executed>>
        /\ UNCHANGED <<kind, saved, messages, reactions, threads, seen, inflight, nextEv, mxlog,
                       zlog, raised, ref, faults>>
        /\ UNCHANGED <<member_sync, members, mxin, registered, ovars>>
        /\ UNCHANGED <<tvars, cvars, kvars>>

\* _handle_subscription for one user of the room's stream: on_join for
\* "peer_add", on_part for "peer_remove".
Subscription(op, z) ==
    LET mx == get_mxid_from_zulip_user_id(z)
        evs == IF z = Profile THEN <<>>
               ELSE IF op = "peer_add"
                  THEN <<QEvent("_ensure_zulip_user_id", mx, 0, "", 0, NoKey),
                         QEvent("_join", mx, 0, "", 0, NoKey),
                         QEvent("_join", mx, 0, "", 0, NoKey)>>
               ELSE IF NeverRemoved(mx) THEN <<>>
               ELSE <<QEvent("_leave", mx, 0, "", 0, NoKey)>>
    IN  /\ kind = "stream"
        /\ 1 \in rooms                       \* _get_room_by_stream_id finds the room
        /\ lastOp.n < MaxSyncs
        /\ Handled(op, z, FALSE, FALSE)
        /\ EnqueueOp(evs)
        /\ UNCHANGED <<now, task, running, executed>>
        /\ UNCHANGED <<kind, saved, messages, reactions, threads, seen, inflight, nextEv, mxlog,
                       zlog, raised, ref, faults>>
        /\ UNCHANGED <<tvars, cvars, kvars, bvars>>

\* StreamRoom.cmd_sync with one of --lazy, --half, --full, --off.
CmdSync(mode) ==
    /\ kind = "stream"
    /\ lastOp.n < MaxSyncs
    /\ Handled("cmd_sync", 0, FALSE, FALSE)
    /\ member_sync' = mode
    /\ lazy_members' = IF mode = "off" THEN [on |-> FALSE, ids |-> {}] ELSE lazy_members
    /\ UNCHANGED qvars
    /\ UNCHANGED <<kind, saved, messages, reactions, threads, seen, inflight, nextEv, mxlog,
                   zlog, raised, ref, faults>>
    /\ UNCHANGED <<members, mxin, synced, registered, ovars>>
    /\ UNCHANGED <<tvars, cvars, kvars>>

\* A faulty cleanup that leaves the reconnect intent as it was.
OrgCleanup_KeepsIntent(o) ==
    [o EXCEPT !.connected = FALSE, !.backoff_task = "none", !.zulip = "none"]

\* OrganizationRoom.cleanup: "prevent reconnecting ever again", the backoff
\* task is cancelled and dropped, the client is dropped.
OrgCleanup(o) ==
    [o EXCEPT !.connected = FALSE, !.disconnect = TRUE, !.backoff_task = "none",
              !.zulip = "none"]

\* A faulty dispatcher that tears a room down on any exception.
RoomTornDown_Always(exc) == exc # "none"

\* _on_mx_event: "except RoomInvalidError" unregisters and cleans up the
\* room; "except Exception" logs and goes on.
RoomTornDown(exc) == exc = "RoomInvalidError"

\* _on_mx_event for an m.room.member event of the room, a stream room, the
\* control room of "@alice" or her organization room (whose cleanup drops
\* the connection and cancels the backoff sleep): _on_mx_room_member
\* and, when it raises RoomInvalidError, unregister_room, cleanup (the queue
\* worker and the callback it awaits are cancelled) and leave_room.  own:
\* the event is the oldest one caused by a call of the bridge; otherwise a
\* Matrix user caused it.  exc: what on_mx_ban raises, if anything.  The
\* lists bans, displaynames and last_messages are left out.  The cleanup
\* of a stream room deletes rooms[self.name], and rooms holds the room
\* under its stream id, so rooms keeps it.  lastOp.had
\* records a RoomInvalidError, lastOp.priv another exception.
MxRoomMember(u, ms, own, exc) ==
    LET after == IF ms \in {"leave", "ban"} THEN Remove(members, u)
                 ELSE IF u \in Range(members) THEN members ELSE Append(members, u)
        owner == "@alice" \in Range(after)
        valid == IF kind = "control" THEN Len(after) = 2     \* ControlRoom.is_valid
                 ELSE IF kind = "organization" THEN IsValidOrg(owner, org)
                 ELSE "@zulip_bridge" \in Range(after)        \* StreamRoom.is_valid
        raises == IF /\ ms \in {"leave", "ban"}
                     /\ u \in Range(members)
                     /\ ~valid
                     THEN "RoomInvalidError"
                     ELSE exc
        down == registered /\ RoomTornDown(raises)
        gone == down /\ kind = "organization"
    IN  /\ kind \in {"stream", "control", "organization"}
        /\ exc # "none" => ms = "ban"
        /\ IF own THEN mxin # <<>> /\ Head(mxin) = [user |-> u, membership |-> ms]
                  ELSE lastOp.n < MaxSyncs /\ registered
        /\ mxin' = IF own THEN Tail(mxin) ELSE mxin
        /\ lastOp' = IF own THEN lastOp
                     ELSE [n |-> lastOp.n + 1, op |-> "mx_member", m |-> 0,
                           had |-> raises = "RoomInvalidError",
                           priv |-> raises \notin {"none", "RoomInvalidError"}]
        /\ members' = IF registered THEN after ELSE members
        /\ registered' = (registered /\ ~down)
        /\ task' = IF down THEN "none" ELSE task
        /\ running' = IF down THEN <<>> ELSE running
        /\ inflight' = IF down THEN NoFlight ELSE inflight
        /\ mxlog' = IF down
                       THEN Append(mxlog, MxCall("leave_room", NoEvent, 0, 0))
                       ELSE mxlog
        /\ UNCHANGED <<now, start, timer, events, chain, executed, enqueued, last>>
        /\ UNCHANGED <<kind, saved, messages, reactions, threads, seen, nextEv, zlog, raised,
                       ref, faults>>
        /\ org' = IF gone THEN OrgCleanup(org) ELSE org
        /\ pc' = IF gone
                    THEN [q \in Tasks |->
                            IF pc[q] = "conn_sleep" THEN "conn_cancelled" ELSE pc[q]]
                    ELSE pc
        /\ orgEnv' = IF kind = "organization" /\ registered
                        THEN [orgEnv EXCEPT !.ownerIn = owner] ELSE orgEnv
        /\ UNCHANGED <<nfail, discAsked, lastConnect>>
        /\ UNCHANGED <<member_sync, lazy_members, synced, ovars>>
        /\ UNCHANGED <<tvars, kvars>>

\* OrganizationRoom.cmd_unsubscribe for the stream of the room, under
\* @connected: the room is looked up in rooms, unregistered and cleaned up
\* (its queue worker and the callback it awaits are cancelled), left on
\* Matrix, deleted from rooms under its stream id, and the Zulip
\* subscription is removed.
CmdUnsubscribe ==
    /\ kind = "stream"
    /\ ConnectedGuard(org)
    /\ 1 \in rooms
    /\ lastOp.n < MaxSyncs
    /\ Handled("cmd_unsubscribe", 0, FALSE, FALSE)
    /\ registered' = FALSE
    /\ task' = "none"
    /\ running' = <<>>
    /\ inflight' = NoFlight
    /\ mxlog' = Append(mxlog, MxCall("leave_room", NoEvent, 0, 0))
    /\ rooms' = rooms \ {1}
    /\ zlog' = Append(zlog, ZCall("remove_subscriptions", 0, "", TRUE))
    /\ UNCHANGED <<now, start, timer, events, chain, executed, enqueued, last>>
    /\ UNCHANGED <<kind, saved, messages, reactions, threads, seen, nextEv, raised, ref, faults>>
    /\ UNCHANGED <<member_sync, members, lazy_members, mxin, synced>>
    /\ UNCHANGED <<direct_rooms, created, dmpc, roomid, past, boot, mod, space, made>>
    /\ UNCHANGED <<tvars, cvars, kvars>>

NextMembers ==
    \/ CmdUnsubscribe
    \/ \E S \in SUBSET (ZulipUsers \cup {Profile}) : SyncZulipMembers(S)
    \/ \E op \in {"peer_add", "peer_remove"}, z \in {1, Profile} : Subscription(op, z)
    \/ \E mode \in {"off", "lazy", "half", "full"} : CmdSync(mode)
    \/ \E u \in {"@zulip_bridge", "@zulip_org_1"}, ms \in {"join", "leave", "ban"},
          own \in BOOLEAN, exc \in {"none", "MatrixRequestError"} :
             MxRoomMember(u, ms, own, exc)
    \/ LoopSleep
    \/ TimerFire
    \/ WorkerGet
    \/ FlushBegin
    \/ FlushResume
    \/ FlushRaise
    \/ WorkerDone

SpecMembers == InitThread /\ [][NextMembers]_vars

\* The queue is empty, no flush is under way and every m.room.member event
\* has been delivered.
MembersQuiet ==
    /\ events = <<>> /\ chain = <<>> /\ inflight = NoFlight
    /\ \A i \in DOMAIN running : running[i] = <<>>
    /\ mxin = <<>>

\* C12 (as stated): in full mode, once sync_zulip_members(S) and the events
\* it enqueued have run, the puppets in the room are exactly the puppets of
\* S, next to the appservice account and the owner, and no member is listed
\* twice.
C12_FullSyncExact ==
    (lastOp.op = "sync" /\ member_sync = "full" /\ faults = 0 /\ MembersQuiet) =>
        /\ {u \in Range(members) : ~NeverRemoved(u)}
              = {get_mxid_from_zulip_user_id(z) : z \in synced}
        /\ \A i, j \in DOMAIN members : members[i] = members[j] => i = j


\* C13 (as stated): the mode decides what is mirrored: sync_zulip_members
\* enqueues a join only in full mode, and a peer_add event enqueues a join
\* only in half or full mode; in off and lazy mode neither does.
C13_ModeDecides ==
    [][(/\ lastOp'.n # lastOp.n
        /\ lastOp'.op \in {"sync", "peer_add"}
        /\ \E i \in (Len(enqueued) + 1)..Len(enqueued') : enqueued'[i].type = "_join")
          => /\ member_sync \in {"half", "full"}
             /\ lastOp'.op = "sync" => member_sync = "full"]_vars

\* C14: no _leave and no _kick event is ever enqueued for the appservice
\* account or for the owner of the room.
C14_OwnAccountsNeverRemoved ==
    \A i \in DOMAIN enqueued :
        enqueued[i].type \in {"_leave", "_kick"} => ~(enqueued[i].target \in {"@zulip_bridge", "@alice"})

\* A sync with a subscriber list that names neither account has removed a
\* puppet, while the appservice account, whose name lies in the puppet
\* namespace, is in the room.
C14_Witness ==
    /\ lastOp.op = "sync"
    /\ "@zulip_bridge" \in Range(SelectSeq(members, IsPuppetName))
    /\ \E i \in DOMAIN enqueued :
          enqueued[i].type = "_leave" /\ enqueued[i].topic = "Unsubcribed from stream"


C16_NoRaceWithLoop == ~(caller # NoCall /\ flushing # NoFlush)


\* ------------------------------------------------ direct rooms
\* The recipient sets of the direct messages and DM commands.
RecipientSets == {{1}, {2}, {1, 2}}

\* handle_dm_message, run by the queue worker of the organization room for
\* a _dm_message event (p = "queue"), or cmd_dm, run by the command task
\* (p = "cmd"): direct_rooms.get(recipient_ids) and, when there is no room,
\* DirectRoom.create.  cached: cache_user finds every display name cached,
\* so that create does not suspend; otherwise create is left suspended in
\* "await organization.serv.cache_user(...)".
GetOrCreate(p, R, cached) ==
    /\ dmpc[p] = {}
    /\ Len(created) < MaxRooms
    /\ IF R \in DOMAIN direct_rooms
          THEN UNCHANGED <<direct_rooms, created, dmpc>>
          ELSE IF cached
             THEN /\ created' = Append(created, R)
                  /\ direct_rooms' = Put(direct_rooms, R, Len(created) + 1)
                  /\ dmpc' = dmpc
             ELSE /\ dmpc' = [dmpc EXCEPT ![p] = {R}]
                  /\ UNCHANGED <<direct_rooms, created>>
    /\ UNCHANGED <<member_sync, members, lazy_members, mxin, synced, registered, roomid,
                   past, boot, mod, rooms, space, made>>
    /\ UNCHANGED <<qvars, tvars, cvars, rvars, kvars>>

\* cache_user returns and DirectRoom.create runs to its end: the room is
\* made and "organization.direct_rooms[recipient_ids] = room".
CreateResume(p) ==
    /\ dmpc[p] # {}
    /\ \E R \in dmpc[p] :
          /\ created' = Append(created, R)
          /\ direct_rooms' = Put(direct_rooms, R, Len(created) + 1)
    /\ dmpc' = [dmpc EXCEPT ![p] = {}]
    /\ UNCHANGED <<member_sync, members, lazy_members, mxin, synced, registered, roomid,
                   past, boot, mod, rooms, space, made>>
    /\ UNCHANGED <<qvars, tvars, cvars, rvars, kvars>>

NextDirect ==
    \/ \E p \in {"queue", "cmd"}, R \in RecipientSets, cached \in BOOLEAN :
          GetOrCreate(p, R, cached)
    \/ \E p \in {"queue", "cmd"} : CreateResume(p)

SpecDirect == InitRoom /\ [][NextDirect]_vars

\* C17 (as stated): DirectRoom.create runs at most once for a recipient
\* set, so that the room in direct_rooms is the only one with those
\* recipients.
C17_OneRoomPerRecipients ==
    \A R \in RecipientSets : Cardinality({i \in DOMAIN created : created[i] = R}) <= 1


\* ------------------------------------------------ a room made without an id
\* StreamRoom.create has made the room with id None and put it into
\* organization.rooms: the queue worker is not started, and Zulip events of
\* the stream are enqueued as they arrive on the executor thread.
InitCreate ==
    /\ ConnIdle
    /\ ThreadIdle
    /\ kind = "stream"
    /\ RoomIdle
    /\ member_sync = "full"
    /\ members = <<"@alice", "@zulip_bridge">>
    /\ lazy_members = [on |-> TRUE, ids |-> {}]
    /\ mxin = <<>>
    /\ synced = {}
    /\ registered = FALSE
    /\ direct_rooms = <<>>
    /\ rooms = {1}
    /\ space = NoSpace
    /\ made = NoneMade
    /\ created = <<>>
    /\ dmpc = [p \in {"queue", "cmd"} |-> {}]
    /\ roomid = 0
    /\ past = [n |-> 0, disconnect |-> TRUE, connected |-> FALSE]
    /\ boot = [phase |-> "off", unsafe |-> FALSE, n |-> 0, cfg |-> <<>>, rooms |-> {},
               i |-> 0, calls |-> <<>>]
    /\ mod = [relay |-> TRUE, deactivated |-> {}, puppets |-> (2 :> "@alice"),
              login |-> [n |-> 0, user |-> "", z |-> 0], bans |-> <<>>,
              owed |-> <<>>, n |-> 0, exc |-> FALSE]
    /\ CfgIdle
    /\ now = 0
    /\ start = 0
    /\ timer = NoTimer
    /\ events = <<>>
    /\ chain = <<>>
    /\ task = "none"
    /\ running = <<>>
    /\ executed = <<>>
    /\ enqueued = <<>>
    /\ last = -1

\* A faulty create_mx that asks for a second room after the save and takes
\* its id.
CreateMx_Reassigns ==
    /\ LoopFree
    /\ task = "none"
    /\ IF roomid = 0
          THEN roomid' = 1 /\ registered' = TRUE /\ task' = task
          ELSE task' = "get" /\ roomid' = roomid + 1 /\ UNCHANGED registered
    /\ UNCHANGED <<now, start, timer, events, chain, running, executed, enqueued, last>>
    /\ UNCHANGED <<member_sync, members, lazy_members, mxin, synced, direct_rooms,
                   created, dmpc, past, boot, mod, rooms, space, made>>
    /\ UNCHANGED <<tvars, cvars, rvars, kvars>>

\* StreamRoom.create_mx (join_existing_room and DirectRoom.create_mx alike):
\* "self.id = await ...create_room(...)" and register_room, then, after
\* "await self.save()", "self._queue.start()".
CreateMx ==
    /\ LoopFree
    /\ task = "none"
    /\ IF roomid = 0
          THEN roomid' = 1 /\ registered' = TRUE /\ task' = task
          ELSE task' = "get" /\ UNCHANGED <<roomid, registered>>
    /\ UNCHANGED <<now, start, timer, events, chain, running, executed, enqueued, last>>
    /\ UNCHANGED <<member_sync, members, lazy_members, mxin, synced, direct_rooms,
                   created, dmpc, past, boot, mod, rooms, space, made>>
    /\ UNCHANGED <<tvars, cvars, rvars, kvars>>

NextCreate ==
    \/ CreateMx
    \/ ThreadCall
    \/ ThreadCancel
    \/ ThreadLen
    \/ ThreadAppend
    \/ ThreadTest
    \/ ThreadFlushSwap
    \/ ThreadFlushPut
    \/ HandleStart
    \/ LoopFlushSwap
    \/ LoopFlushPut
    \/ ClockTick
    \/ WorkerGet
    \/ CallbackStep
    \/ WorkerDone

SpecCreate == InitCreate /\ [][NextCreate]_vars

\* C18 (as stated): no event is handed to the consumer while the room's id
\* is None; until the start the flushed batches wait in the chain in the
\* order in which their events were enqueued, and the events are handed
\* over in that order.
C18_HeldThenInOrder ==
    /\ (executed # <<>> \/ running # <<>>) => roomid # 0
    /\ task = "none" => IsPrefix(Flatten(chain), enqueued)
    /\ IsPrefix(executed, enqueued)


\* C19 (as stated): once a DISCONNECT issued during a backoff wait has
\* completed, the disconnect flag is true, no backoff wait is pending, the
\* connection object is None and connected is false.
C19_AfterDisconnect ==
    (discAsked /\ \A p \in Tasks : pc[p] \notin {"disc_save", "disc_save_re"}) =>
        /\ org.disconnect
        /\ org.backoff_task = "none"
        /\ org.zulip = "none"
        /\ ~org.connected


\* ------------------------------------------------ restart of the bridge
\* The bridge stops and starts again.  The organization room is built anew:
\* init() sets the connection fields and from_config restores name,
\* api_key, email, site, messages, max_backfill_amount and
\* zulip_puppet_login, no connection field.  run() then drops a room that
\* is not valid and schedules connect() for an organization room that is
\* not connected; the step runs that connect() call, in task 1, up to the
\* while loop of _connect.
Restart ==
    /\ past.n < MaxRestarts
    /\ past' = [n |-> past.n + 1, disconnect |-> org.disconnect,
                connected |-> org.connected]
    /\ nfail' = 0
    /\ discAsked' = FALSE
    /\ UNCHANGED orgEnv
    /\ IF ~IsValidOrg(orgEnv.ownerIn, OrgInit)
          THEN /\ org' = OrgInit
               /\ pc' = [p \in Tasks |-> "idle"]
               /\ lastConnect' = [p \in Tasks |-> "none"]
       ELSE IF ~orgEnv.creds
          THEN /\ org' = [OrgInit EXCEPT !.disconnect = FALSE]
               /\ pc' = [p \in Tasks |-> "idle"]
               /\ lastConnect' = [p \in Tasks |-> IF p = 1 THEN "nocreds" ELSE "none"]
       ELSE /\ org' = [OrgInit EXCEPT !.disconnect = FALSE, !.connlock = 1]
            /\ pc' = [p \in Tasks |-> IF p = 1 THEN "conn_try" ELSE "idle"]
            /\ lastConnect' = [p \in Tasks |-> IF p = 1 THEN "ran" ELSE "none"]
    /\ UNCHANGED <<member_sync, members, lazy_members, mxin, synced, registered,
                   direct_rooms, created, dmpc, roomid, boot, mod, rooms, space, made>>
    /\ UNCHANGED <<qvars, tvars, rvars, kvars>>

NextRestart ==
    \/ \E p \in Tasks : ConnectCall(p)
    \/ \E p \in Tasks : ConnTry(p)
    \/ \E p \in Tasks : ConnSaved(p)
    \/ \E p \in Tasks : SleepElapsed(p)
    \/ \E p \in Tasks : SleepCancelled(p)
    \/ \E p \in Tasks : DisconnectCall(p)
    \/ \E p \in Tasks : ReconnectCall(p)
    \/ \E p \in Tasks : DisconnectSaved(p)
    \/ DelOrganization
    \/ Restart

SpecRestart == InitConn /\ [][NextRestart]_vars

\* C20 (as stated): at a restart, an organization that was connected is
\* connected again by the start-up, and an organization whose connection was
\* ended with DISCONNECT after a connect() is left alone by the start-up.
C20_IntentSurvivesRestart ==
    [][past'.n # past.n =>
         /\ (org.connected /\ ~org.disconnect /\ orgEnv.creds)
               => \E p \in Tasks : pc'[p] = "conn_try"
         /\ (org.disconnect /\ \E p \in Tasks : lastConnect[p] \in {"ran", "nocreds"})
               => /\ \A p \in Tasks : pc'[p] = "idle"
                  /\ org'.disconnect]_vars

\* ------------------------------------------------ start-up import of the rooms
\* What the import finds for a joined room: "ok"; "nodata", get_account_data
\* raises MNotFound; "nofield", the blob lacks type or user_id; "unknown",
\* its type is no room class; "badfield", from_config raises on a missing
\* field; "invalid", is_valid() is false after from_config; "postinvalid",
\* is_valid() is false after post_init.

\* leave_room(room_id, members): the puppets among the members leave, then
\* the appservice leaves and forgets the room; a MatrixRequestError of
\* either call is swallowed.  joined is still {} when the failure came
\* before get_member_profiles returned.
leave_room_NoForget(id, puppet, ok) ==
    (IF puppet THEN <<[op |-> "puppet_leave", room |-> id, ok |-> TRUE]>> ELSE <<>>)
        \o <<[op |-> "leave", room |-> id, ok |-> ok]>>

leave_room(id, puppet, ok) ==
    (IF puppet THEN <<[op |-> "puppet_leave", room |-> id, ok |-> TRUE]>> ELSE <<>>)
        \o <<[op |-> "leave", room |-> id, ok |-> ok],
             [op |-> "forget", room |-> id, ok |-> ok]>>

\* run() reads its unsafe flag and the list of joined rooms.
StartImport(unsafe, n) ==
    /\ boot.phase = "off"
    /\ boot' = [boot EXCEPT !.phase = IF n = 0 THEN "post" ELSE "import",
                            !.unsafe = unsafe, !.n = n]
    /\ UNCHANGED <<direct_rooms, created, dmpc, roomid, past, mod, rooms, space, made>>
    /\ UNCHANGED <<member_sync, members, lazy_members, mxin, synced, registered>>
    /\ UNCHANGED <<qvars, tvars, cvars, rvars, kvars>>

\* One pass of the "import all rooms" loop, for the next joined room.
ImportRoom(k, puppet, ok) ==
    /\ boot.phase = "import"
    /\ LET id == Len(boot.cfg) + 1
           joined == puppet /\ k \in {"ok", "badfield", "invalid", "postinvalid"}
           left == IF k = "nodata" THEN leave_room(id, joined, ok)
                   ELSE IF k \in {"ok", "postinvalid"} \/ ~boot.unsafe THEN <<>>
                   ELSE leave_room(id, joined, ok)
       IN  boot' = [boot EXCEPT
                       !.cfg = Append(@, [kind |-> k, puppet |-> puppet]),
                       !.rooms = IF k \in {"ok", "postinvalid"} THEN @ \cup {id} ELSE @,
                       !.calls = @ \o left,
                       !.phase = IF id = boot.n THEN "post" ELSE "import"]
    /\ UNCHANGED <<direct_rooms, created, dmpc, roomid, past, mod, rooms, space, made>>
    /\ UNCHANGED <<member_sync, members, lazy_members, mxin, synced, registered>>
    /\ UNCHANGED <<qvars, tvars, cvars, rvars, kvars>>

\* One pass of the loop over list(self._rooms.values()): post_init, then
\* is_valid() again; the loop ends after the last registered room.
PostInitRoom(ok) ==
    /\ boot.phase = "post"
    /\ LET rest == {r \in boot.rooms : r > boot.i}
       IN  IF rest = {}
              THEN boot' = [boot EXCEPT !.phase = "done"]
           ELSE LET id == CHOOSE r \in rest : \A q \in rest : r <= q
                IN  IF boot.cfg[id].kind = "postinvalid"
                       THEN boot' = [boot EXCEPT
                                !.i = id,
                                !.rooms = @ \ {id},
                                !.calls = IF boot.unsafe
                                             THEN @ \o leave_room(id, boot.cfg[id].puppet, ok)
                                          ELSE @]
                    ELSE boot' = [boot EXCEPT !.i = id]
    /\ UNCHANGED <<direct_rooms, created, dmpc, roomid, past, mod, rooms, space, made>>
    /\ UNCHANGED <<member_sync, members, lazy_members, mxin, synced, registered>>
    /\ UNCHANGED <<qvars, tvars, cvars, rvars, kvars>>

NextImport ==
    \/ \E unsafe \in BOOLEAN, n \in 0..MaxJoined : StartImport(unsafe, n)
    \/ \E k \in {"ok", "nodata", "nofield", "unknown", "badfield", "invalid", "postinvalid"},
          puppet \in BOOLEAN, ok \in BOOLEAN : ImportRoom(k, puppet, ok)
    \/ \E ok \in BOOLEAN : PostInitRoom(ok)

SpecImport == InitRoom /\ [][NextImport]_vars

OpsFor(id) == {boot.calls[j].op : j \in {j \in DOMAIN boot.calls : boot.calls[j].room = id}}

MxMessage_StoresFirst(sender, thread, body, m, ok) ==
    LET called == /\ ConnectedGuard(org)
                  /\ IF kind = "direct" THEN HasPuppet(sender) ELSE thread # 0
        known == \E t \in DOMAIN threads : threads[t] = thread
    IN  /\ lastOp.n < MaxOps
        /\ thread < nextEv
        /\ m \notin seen /\ m \notin DOMAIN messages
        /\ \A j \in 1..(m - 1) : j \in seen \/ j \in DOMAIN messages
        /\ ok \in Outcomes
        /\ called \/ ok
        /\ Handled("mx_message", m, called, kind = "direct")
        /\ faults' = IF ok THEN faults ELSE faults + 1
        /\ nextEv' = nextEv + 1
        /\ threads' = IF called /\ kind = "stream" /\ ~known
                         THEN Put(threads, body, thread) ELSE threads
        /\ zlog' = IF called THEN Append(zlog, ZCall("send_message", m, "", ok)) ELSE zlog
        /\ messages' = IF called THEN Put(messages, m, nextEv) ELSE messages
        /\ saved' = IF called /\ ok
                       THEN [messages |-> messages', reactions |-> reactions,
                             threads |-> threads']
                       ELSE saved
        /\ UNCHANGED qvars
        /\ UNCHANGED <<kind, reactions, seen, inflight, mxlog, raised, ref>>
        /\ UNCHANGED <<tvars, cvars, kvars, bvars>>

\* m.room.message of a Matrix user in the room: on_mx_message and
\* _relay_message of StreamRoom and DirectRoom.  The homeserver gave the
\* event the id nextEv; thread is its thread root (0: none) and body the
\* text of that root; m is the id Zulip gives the message when the send
\* succeeds, the least id not met so far.  A stream room drops a message
\* outside a thread, a direct room one of a sender without puppet.  The
\* room is saved after a send that succeeded.
MxMessage(sender, thread, body, m, ok) ==
    LET called == /\ ConnectedGuard(org)
                  /\ IF kind = "direct" THEN HasPuppet(sender) ELSE thread # 0
        known == \E t \in DOMAIN threads : threads[t] = thread   \* threads.inv
    IN  /\ lastOp.n < MaxOps
        /\ thread < nextEv
        /\ m \notin seen /\ m \notin DOMAIN messages
        /\ \A j \in 1..(m - 1) : j \in seen \/ j \in DOMAIN messages
        /\ ok \in Outcomes
        /\ called \/ ok
        /\ Handled("mx_message", m, called, kind = "direct")
        /\ faults' = IF ok THEN faults ELSE faults + 1
        /\ nextEv' = nextEv + 1
        /\ threads' = IF called /\ kind = "stream" /\ ~known
                         THEN Put(threads, body, thread) ELSE threads
        /\ zlog' = IF called THEN Append(zlog, ZCall("send_message", m, "", ok)) ELSE zlog
        /\ messages' = IF called /\ ok THEN Put(messages, m, nextEv) ELSE messages
        /\ saved' = IF called /\ ok
                       THEN [messages |-> messages', reactions |-> reactions,
                             threads |-> threads']
                       ELSE saved
        /\ UNCHANGED qvars
        /\ UNCHANGED <<kind, reactions, seen, inflight, mxlog, raised, ref>>
        /\ UNCHANGED <<tvars, cvars, kvars, bvars>>

\* A room with messages relayed in both directions.
NextRelay ==
    \/ \E m \in MsgIds, t \in Topics : ZulipStreamMessage(m, t)
    \/ \E m \in MsgIds : ZulipDirectMessage(m)
    \/ \E sender \in Senders, thread \in 0..MaxMsgs, body \in Topics, m \in MsgIds,
          ok \in BOOLEAN : MxMessage(sender, thread, body, m, ok)
    \/ LoopSleep
    \/ TimerFire
    \/ WorkerGet
    \/ FlushBegin
    \/ FlushResume
    \/ FlushRaise
    \/ WorkerDone

SpecRelay == InitRoom /\ [][NextRelay]_vars

\* A step in which the relay of one message fails: send_message of Zulip
\* returns an error, or the Matrix call of the queued message raises.
FailedRelay ==
    \/ lastOp'.n # lastOp.n /\ lastOp'.op = "mx_message" /\ faults' # faults
    \/ /\ inflight.at \in {"name", "send"} /\ inflight.ev.type = "message"
       /\ inflight' = NoFlight /\ faults' # faults

\* C22: a failed relay of one message leaves the connection object, the
\* connected flag and the disconnect flag of the organization as they were
\* and adds no entry to the message table.
C22_FailedRelayFrame ==
    [][FailedRelay => /\ org'.zulip = org.zulip
                      /\ org'.connected = org.connected
                      /\ org'.disconnect = org.disconnect
                      /\ messages' = messages]_vars

\* send_message of Zulip has failed for a message of a Matrix user while
\* the organization is connected.
C22_Witness ==
    /\ org.connected /\ org.zulip = "live"
    /\ lastOp.op = "mx_message"
    /\ zlog # <<>> /\ ~zlog[Len(zlog)].ok /\ zlog[Len(zlog)].op = "send_message"

\* ------------------------------------------------ moderation relay
\* The organization has the stream rooms "s1" and "s2" and the direct room
\* "d1" with recipient_ids [1, 2]; "@zulip_org_1" is the puppet of Zulip
\* user 1, "@alice" is logged in as Zulip user 2, "@bob" is not logged in
\* at first.  A Zulip user id is a str where it comes from the regex of
\* get_zulip_user_id_from_mxid or from the keys of zulip_puppet_user_mxid,
\* and an int in recipient_ids, which holds user["id"] of the Zulip API.

\* RELAYMODERATION --on / --off.
CmdRelayModeration(b) ==
    /\ mod.relay # b
    /\ mod' = [mod EXCEPT !.relay = b]
    /\ UNCHANGED <<direct_rooms, created, dmpc, roomid, past, boot, rooms, space, made>>
    /\ UNCHANGED <<member_sync, members, lazy_members, mxin, synced, registered>>
    /\ UNCHANGED <<qvars, tvars, cvars, rvars, kvars>>

\* An m.room.member event of user u in the stream room r: a ban
\* (_on_mx_room_member, on_mx_ban) or the leave that lifts a ban
\* (on_mx_unban).  own: the event is the oldest one owed for a ban_user call
\* of the bridge; otherwise a moderator caused it.  ok: the Zulip call
\* succeeds.  nban: how many ban_user calls return before one raises,
\* which mod.exc records.  The loop over the rooms suspends at each
\* ban_user; deactivated_users holds the user before the first of them.
MxModeration(r, u, ms, own, ok, nban) ==
    LET zid == IF u = "@zulip_org_1" THEN [str |-> TRUE, v |-> 1]
               ELSE [str |-> TRUE, v |-> InverseGet(mod.puppets, u)]   \* 0: None
        recipient_ids == {[str |-> FALSE, v |-> 1], [str |-> FALSE, v |-> 2]}
        relayed == ConnectedGuard(org) /\ mod.relay /\ zid.v # 0
        calls == relayed /\ IF ms = "ban" THEN zid \notin mod.deactivated
                            ELSE zid \in mod.deactivated
        streams == SelectSeq(<<"s1", "s2">>, LAMBDA x : x # r)
        directs == IF zid \in recipient_ids THEN <<"d1">> ELSE <<>>
        others == streams \o directs
        banned == [i \in 1..Min(nban, Len(others)) |-> [room |-> others[i], user |-> u]]
    IN  /\ IF own THEN mod.owed # <<>> /\ Head(mod.owed) = [room |-> r, user |-> u]
                       /\ ms = "ban"
                  ELSE mod.n < MaxSyncs
        /\ calls \/ (ok /\ nban = 0)
        /\ zlog' = IF calls
                      THEN Append(zlog, ZCall(IF ms = "ban" THEN "deactivate_user"
                                              ELSE "reactivate_user", zid.v, "", ok))
                      ELSE zlog
        /\ mod' = [mod EXCEPT
                     !.n = IF own THEN @ ELSE @ + 1,
                     !.deactivated = IF ~(calls /\ ok) THEN @
                                     ELSE IF ms = "ban" THEN @ \cup {zid} ELSE @ \ {zid},
                     !.puppets = IF calls /\ ok /\ ms = "ban"
                                    THEN Del(@, InverseGet(@, u)) ELSE @,
                     !.bans = IF calls /\ ok /\ ms = "ban" THEN @ \o banned ELSE @,
                     !.exc = calls /\ ok /\ ms = "ban" /\ nban < Len(others),
                     !.owed = (IF own THEN Tail(@) ELSE @)
                                 \o (IF calls /\ ok /\ ms = "ban" THEN banned ELSE <<>>)]
        /\ UNCHANGED <<direct_rooms, created, dmpc, roomid, past, boot, rooms, space, made>>
        /\ UNCHANGED <<member_sync, members, lazy_members, mxin, synced, registered>>
        /\ UNCHANGED qvars
        /\ UNCHANGED <<kind, saved, messages, reactions, threads, seen, inflight, nextEv, mxlog,
                       raised, ref, faults, lastOp>>
        /\ UNCHANGED <<tvars, cvars, kvars>>

\* LOGINZULIP of Matrix user u in the personal room, with the API key of
\* Zulip user z: cmd_loginzulip and login_zulip_puppet.  The assignment
\* zulip_puppet_user_mxid[z] = u replaces the value of the key z, and
\* raises ValueDuplicationError when another key maps to u already.
CmdLoginZulip(u, z) ==
    /\ mod.n < MaxSyncs
    /\ mod' = [mod EXCEPT
                 !.n = @ + 1,
                 !.login = [n |-> @.n + 1, user |-> u, z |-> z],
                 !.puppets = IF BiFree(@, z, u) THEN Put(@, z, u) ELSE @]
    /\ UNCHANGED <<direct_rooms, created, dmpc, roomid, past, boot, rooms, space, made>>
    /\ UNCHANGED <<member_sync, members, lazy_members, mxin, synced, registered>>
    /\ UNCHANGED <<qvars, tvars, cvars, rvars, kvars>>

NextModeration ==
    \/ \E u \in {"@alice", "@bob"}, z \in ZulipUsers : CmdLoginZulip(u, z)
    \/ \E b \in BOOLEAN : CmdRelayModeration(b)
    \/ \E r \in {"s1", "s2"}, u \in {"@zulip_org_1", "@alice", "@bob"},
          ms \in {"ban", "unban"}, own \in BOOLEAN, ok \in BOOLEAN, nban \in 0..2 :
             MxModeration(r, u, ms, own, ok, nban)

SpecModeration == InitThread /\ [][NextModeration]_vars

\* The rooms of the ban_user calls made in the step.
NewBans == {mod'.bans[i].room : i \in (Len(mod.bans) + 1)..Len(mod'.bans)}

\* C23 (as stated): a ban handled with the relay on, whose deactivate call
\* and ban_user calls succeed, bans the user in every other room, that is
\* in the other stream room and in the direct room of which the user is a
\* recipient; a ban event owed for such a call makes no Zulip call; with
\* the relay off no step makes one.
C23_BanRelayTerminates ==
    [][/\ (/\ Len(zlog') = Len(zlog) + 1
           /\ zlog'[Len(zlog')].op = "deactivate_user" /\ zlog'[Len(zlog')].ok
           /\ ~mod'.exc)
             => \E r \in {"s1", "s2"} : NewBans = {"s1", "s2", "d1"} \ {r}
       /\ (mod'.n = mod.n /\ mod'.owed # mod.owed) => zlog' = zlog
       /\ ~mod.relay => zlog' = zlog]_vars

\* ------------------------------------------------ flush deadlines
\* C24: while no enqueue() and no _flush is in progress, a non-empty buffer
\* has its flush handle pending 100 ms after the last enqueue, and that
\* enqueue came less than 500 ms after the first buffered event (an enqueue
\* 500 ms or more after it flushes at once), so that no event is buffered
\* 600 ms after the first one of its batch; and the buffer is empty after
\* every flush.
C24_FlushDeadlines ==
    /\ []((LoopFree /\ caller = NoCall /\ events # <<>>) =>
             /\ timer = last + Debounce
             /\ last < start + Force
             /\ now <= timer
             /\ now < start + Force + Debounce)
    /\ [][Len(chain') > Len(chain) => events' = <<>>]_vars

\* ------------------------------------------------ the control room
\* The control room of "@alice": the owner and the appservice account are
\* its two members, and its queue worker is started.
InitControl ==
    /\ now = 0 /\ start = 0 /\ timer = NoTimer /\ last = -1
    /\ events = <<>> /\ chain = <<>> /\ running = <<>>
    /\ executed = <<>> /\ enqueued = <<>>
    /\ task = "get"
    /\ ThreadIdle
    /\ ConnIdle
    /\ kind = "control"
    /\ RoomIdle
    /\ BridgeIdle
    /\ CfgIdle

\* The membership events of the control room, beside the notices its
\* commands send through the queue: on_mx_ban of Room does nothing, and the
\* bridge makes no join or leave call in this room.
NextControl ==
    \/ \E u \in {"@zulip_bridge", "@alice", "@bob"}, ms \in {"join", "leave", "ban"} :
          MxRoomMember(u, ms, FALSE, "none")
    \/ EnqueueQ
    \/ LoopSleep
    \/ TimerFire
    \/ WorkerGet
    \/ CallbackStep
    \/ WorkerDone

SpecControl == InitControl /\ [][NextControl]_vars

\* C25 (as stated): after a dispatched membership event, the room is valid
\* if it is still registered: a control room has exactly two members, a
\* stream room has the appservice account among its members.
C25_RegisteredRoomsValid ==
    (lastOp.op = "mx_member" /\ registered) =>
        IF kind = "control" THEN Len(members) = 2
        ELSE "@zulip_bridge" \in Range(members)


\* C26 (as stated): after a stream room is torn down, by UNSUBSCRIBE or by
\* the dispatcher's invalid-room teardown, it is absent from the bridge
\* registry and from its organization's rooms, so nothing more is enqueued
\* on its stopped queue.
C26_TornDownRoomDetached ==
    [][(kind = "stream" /\ ~registered) =>
          /\ 1 \notin rooms
          /\ enqueued' = enqueued]_vars


\* C27 (as stated): whenever the room is quiescent, and no external call has
\* failed, its persisted blob holds the tables messages, reactions and
\* threads exactly as they are in memory.
C27_BlobEqualsTables ==
    (RoomQuiet /\ faults = 0) =>
        saved = [messages |-> messages, reactions |-> reactions, threads |-> threads]


\* No two keys of the table map to the same value.
OneToOne(f) == \A j, k \in DOMAIN f : f[j] = f[k] => j = k

\* C28 (as stated): the bidirectional tables are one-to-one in every state,
\* and an insertion whose value another key maps to removes that entry and
\* succeeds: after LOGINZULIP of a user with the key of a Zulip account,
\* zulip_puppet_user_mxid maps that account to the user.
C28_TablesOneToOne ==
    /\ [](/\ OneToOne(messages) /\ OneToOne(reactions) /\ OneToOne(threads)
          /\ OneToOne(mod.puppets))
    /\ [][mod'.login # mod.login =>
            /\ mod'.login.z \in DOMAIN mod'.puppets
            /\ mod'.puppets[mod'.login.z] = mod'.login.user]_vars


\* ------------------------------------------------ the organization room
\* Room.send_notice: a notice for the room is enqueued.
SendNotice ==
    /\ Len(enqueued) < MaxNotices
    /\ EnqueueOp(<<Len(enqueued) + 1>>)
    /\ UNCHANGED <<now, task, running, executed>>
    /\ UNCHANGED <<tvars, cvars, rvars, kvars, bvars>>

\* The organization room of "@alice", loaded by run() and not connected:
\* the owner and the appservice account are its members, its queue worker
\* is started, and the organization has one stream room or none.
InitOrg ==
    /\ now = 0 /\ start = 0 /\ timer = NoTimer /\ last = -1
    /\ events = <<>> /\ chain = <<>> /\ running = <<>>
    /\ executed = <<>> /\ enqueued = <<>>
    /\ task = "get"
    /\ ThreadIdle
    /\ ConnIdle
    /\ kind = "organization"
    /\ RoomIdle
    /\ CfgIdle
    /\ member_sync = "full"
    /\ members = <<"@alice", "@zulip_bridge">>
    /\ lazy_members = [on |-> TRUE, ids |-> {}]
    /\ mxin = <<>>
    /\ synced = {}
    /\ registered = TRUE
    /\ direct_rooms = <<>>
    /\ rooms \in {{}, {1}}
    /\ space = NoSpace
    /\ made = NoneMade
    /\ created = <<>>
    /\ dmpc = [p \in {"queue", "cmd"} |-> {}]
    /\ roomid = 1
    /\ past = [n |-> 0, disconnect |-> TRUE, connected |-> FALSE]
    /\ boot = [phase |-> "off", unsafe |-> FALSE, n |-> 0, cfg |-> <<>>, rooms |-> {},
               i |-> 0, calls |-> <<>>]
    /\ mod = [relay |-> TRUE, deactivated |-> {}, puppets |-> (2 :> "@alice"),
              login |-> [n |-> 0, user |-> "", z |-> 0], bans |-> <<>>,
              owed |-> <<>>, n |-> 0, exc |-> FALSE]

\* Membership events of the organization room, the command CONNECT in task
\* 1 and DISCONNECT in task 2, and the notices of the room on its queue.  A
\* _connect that is suspended goes on after the room
\* was torn down; a connect() call made then finds the room invalid.
NextOrg ==
    \/ \E u \in {"@alice", "@bob"}, ms \in {"join", "leave"} :
          MxRoomMember(u, ms, FALSE, "none")
    \/ ConnectCall(1)
    \/ ConnTry(1)
    \/ ConnSaved(1)
    \/ SleepElapsed(1)
    \/ SleepCancelled(1)
    \/ DisconnectCall(2)
    \/ DisconnectSaved(2)
    \/ SendNotice
    \/ LoopSleep
    \/ TimerFire
    \/ WorkerGet
    \/ CallbackStep
    \/ WorkerDone

SpecOrg == InitOrg /\ [][NextOrg]_vars

C30_ConnectedOnlyOnSuccess ==
    [][/\ (~org.connected /\ org'.connected) => (org'.zulip = "live" /\ nfail' = nfail)
       /\ nfail' > nfail => ~org'.connected
       /\ (org.zulip # "live" /\ org'.zulip = "live" /\ nfail' = nfail)
             => \E p \in Tasks : InConnect(p) /\ pc'[p] = "idle"]_vars


\* ------------------------------------------------------------------ C31
\* C31: once the organization room has been stopped by cleanup(), its queue
\* worker is cancelled and nothing is executed any more, whatever was
\* buffered before or is enqueued after the stop; the stop cancels a backoff
\* wait that is in flight; and from then on connected stays false, the
\* client stays None and no task enters a connect attempt, also when a
\* _connect was suspended at one of its awaits when cleanup ran.
C31_StoppedRoomStaysStopped ==
    /\ [](~registered => /\ task = "none" /\ running = <<>>
                         /\ ~org.connected /\ org.zulip = "none")
    /\ [][~registered => /\ executed' = executed
                         /\ \A p \in Tasks : InConnect(p)' => InConnect(p)]_vars
    /\ [][(registered /\ ~registered') =>
              /\ org'.backoff_task = "none"
              /\ \A p \in Tasks : pc'[p] # "conn_sleep"]_vars

\* The room was stopped while a batch lay on the chain and a _connect was
\* suspended; the batch is still unexecuted and a notice came after the stop.
C31_Witness ==
    /\ kind = "organization" /\ ~registered
    /\ chain # <<>> /\ events # <<>>
    /\ InConnect(1)


\* ------------------------------------------------------------------ C32
\* C32: every queued event is handed to _flush_event at most once and in the
\* order of the queue: the attempts made so far, followed by what is left of
\* the running batch, the batches on the chain and the buffer, are exactly
\* the events that were enqueued.  An attempt that raises changes nothing of
\* the queue: the event is not put back, and the rest of its batch stays to
\* be executed.
C32_AttemptedOnceInOrder ==
    /\ [](executed \o Flatten(running) \o Flatten(chain) \o events = enqueued)
    /\ [][faults' > faults => /\ inflight' = NoFlight
                              /\ enqueued' = enqueued /\ executed' = executed
                              /\ running' = running /\ chain' = chain
                              /\ events' = events]_vars

\* Three events enqueued at the same instant, hence one batch: the attempt
\* of the first message raised, and the message after it was sent.
C32_Witness ==
    /\ faults = 1 /\ last = 0
    /\ Len(enqueued) >= 3 /\ executed = enqueued
    /\ 1 \notin DOMAIN messages /\ 2 \in DOMAIN messages


\* ------------------------------------------------------------------ C33
\* C33: the id of a room is assigned once: a step that changes it takes it
\* from None to an id, and an id that is set stays as it is through the
\* save, the start of the queue and everything the room does afterwards.
C33_IdAssignedOnce ==
    [][/\ roomid' # roomid => (roomid = 0 /\ roomid' # 0)
       /\ roomid # 0 => roomid' = roomid]_vars

\* The room got its id, its worker was started and has executed events that
\* were enqueued while the room was pending.
C33_Witness ==
    /\ roomid # 0 /\ registered
    /\ task # "none"
    /\ executed # <<>>


\* ------------------------------------------------ the space of an organization
\* The rooms of the organization that attach themselves to its space.
SpaceKids == {1, 2, 3}

\* The frame of the actions on the space.
SpaceFrame ==
    /\ UNCHANGED <<member_sync, members, lazy_members, mxin, synced, registered,
                   direct_rooms, created, dmpc, roomid, past, boot, mod, rooms, made>>
    /\ UNCHANGED <<qvars, tvars, cvars, rvars, kvars>>

\* SpaceRoom.attach with an id: the m.space.child event of room r is sent.
SendChild(sp, r) ==
    [sp EXCEPT !.sent = Put(@, r, IF r \in DOMAIN @ THEN @[r] + 1 ELSE 1),
               !.children = @ \cup {r}]

\* create_finalize: the for loop "await self.attach(room_id)" at its next
\* room, or at its end.
AttachNext(sp) ==
    IF sp.todo = <<>>
       THEN [sp EXCEPT !.pc = "done"]
       ELSE [SendChild(sp, Head(sp.todo)) EXCEPT !.pc = "loop", !.todo = Tail(sp.todo)]

\* OrganizationRoom.create: SpaceRoom.create makes the space with id None
\* and create_finalize is suspended in the createRoom request.
SpaceCreate ==
    /\ space.pc = "off"
    /\ space' = [space EXCEPT !.pc = "create"]
    /\ SpaceFrame

\* create_finalize resumes: the id is set and save() awaited; then pending
\* is swapped for an empty list and its rooms are attached one by one.
CreateFinalize ==
    /\ space.pc \in {"create", "save", "loop"}
    /\ space' = CASE space.pc = "create" -> [space EXCEPT !.pc = "save", !.id = 9]
                  [] space.pc = "save" ->
                        AttachNext([space EXCEPT !.todo = space.pending, !.pending = <<>>])
                  [] space.pc = "loop" -> AttachNext(space)
    /\ SpaceFrame

\* A room that has got its id calls organization.space.attach(self.id).
SpaceAttach(r) ==
    /\ space.pc # "off"
    /\ r \notin space.asked
    /\ space' = IF space.id = 0
                   THEN [space EXCEPT !.asked = @ \cup {r}, !.queued = @ \cup {r},
                                      !.pending = Append(@, r)]
                   ELSE [SendChild(space, r) EXCEPT !.asked = @ \cup {r}]
    /\ SpaceFrame

\* cleanup of a room: organization.space.detach(self.id).
SpaceDetach(r) ==
    LET unsent == r \in space.queued /\ r \notin DOMAIN space.sent
    IN  /\ r \in space.asked
        /\ r \notin space.detached
        /\ space' = IF space.id # 0
                       THEN [space EXCEPT !.detached = @ \cup {r},
                                          !.children = @ \ {r},
                                          !.dropped = IF unsent THEN @ \cup {r} ELSE @]
                    ELSE IF r \in Range(space.pending)
                       THEN [space EXCEPT !.detached = @ \cup {r},
                                          !.pending = Remove(@, r),
                                          !.dropped = @ \cup {r}]
                    ELSE [space EXCEPT !.detached = @ \cup {r}]
        /\ SpaceFrame

\* _sync_permissions reaches the space: Room.sync_permissions finds the
\* power levels changed and enqueues a _permission event on its queue.
SpaceSyncPermissions ==
    /\ space.id # 0
    /\ space.enqueued < MaxNotices
    /\ space' = [space EXCEPT !.enqueued = @ + 1]
    /\ SpaceFrame

NextSpace ==
    \/ SpaceCreate
    \/ CreateFinalize
    \/ \E r \in SpaceKids : SpaceAttach(r)
    \/ \E r \in SpaceKids : SpaceDetach(r)
    \/ SpaceSyncPermissions

SpecSpace == InitThread /\ [][NextSpace]_vars

\* C34 (as stated): a room that was put into pending gets its m.space.child
\* event exactly once when create_finalize has run, no room gets it twice, a
\* room detached before its event was sent never gets it, and pending is
\* empty when create_finalize has finished.
C34_PendingAttachedOnce ==
    /\ \A r \in DOMAIN space.sent : space.sent[r] = 1
    /\ \A r \in space.dropped : r \notin DOMAIN space.sent
    /\ space.pc = "done" =>
          /\ space.pending = <<>>
          /\ \A r \in space.queued \ space.dropped : r \in DOMAIN space.sent


\* C38 (as stated): when create_finalize has given the space its id and has
\* finished, the queue worker of the space is running, so that the
\* _permission events enqueued on the space are executed.
C38_WorkerRunsOnceIdAssigned ==
    (space.id # 0 /\ space.pc = "done") => space.task # "none"


\* ------------------------------------------------------------------ C35
\* C35 (as stated): a direct message of Zulip is sent into its Matrix DM
\* room at most once, however many times handle_dm_message is given it
\* before the first copy has been flushed.
C35_DirectRelayedOnce ==
    kind = "direct" =>
        \A m \in MsgIds :
            \A j, k \in DOMAIN mxlog :
                (/\ IsSend(mxlog[j], "message") /\ mxlog[j].m = m
                 /\ IsSend(mxlog[k], "message") /\ mxlog[k].m = m) => j = k


\* ------------------------------------------------------------------ C36
\* C36 (as stated): no user is in members twice, whatever the order of the
\* _join events flushed by the queue and the m.room.member events of the
\* homeserver, so that the one entry of a user is gone when that user's
\* leave has been processed.
C36_MembersUnique ==
    \A u \in Range(members) : Cardinality({i \in DOMAIN members : members[i] = u}) = 1


\* ------------------------------------------------ the registry of the bridge
\* The rooms that the organization makes at runtime.
MadeRooms == {1, 2, 3}

\* The Matrix room id that create_room returns for room o.
NewRoomId(o) == 10 + o

\* The frame of the actions on the registry.
MadeFrame ==
    /\ UNCHANGED <<member_sync, members, lazy_members, mxin, synced, registered,
                   direct_rooms, created, dmpc, roomid, past, boot, mod, rooms, space>>
    /\ UNCHANGED <<qvars, tvars, cvars, rvars, kvars>>

\* StreamRoom.create, DirectRoom.create, PersonalRoom.create: the room is
\* constructed with id None and "organization.serv.register_room(room)"
\* stores it under room.id; create_mx is scheduled.
RoomCreate(o) ==
    /\ o \notin DOMAIN made.ids
    /\ made' = [ids |-> Put(made.ids, o, 0), rooms |-> Put(made.rooms, 0, o)]
    /\ MadeFrame

\* create_mx: create_room returns, "self.id = ..." and register_room(self).
RoomCreateMx(o) ==
    /\ o \in DOMAIN made.ids
    /\ made.ids[o] = 0
    /\ made' = [ids |-> Put(made.ids, o, NewRoomId(o)),
                rooms |-> Put(made.rooms, NewRoomId(o), o)]
    /\ MadeFrame

\* The dispatcher tears the room down: unregister_room(room.id).
RoomUnregister(o) ==
    /\ o \in DOMAIN made.ids
    /\ made.ids[o] # 0
    /\ made.ids[o] \in DOMAIN made.rooms
    /\ made' = [made EXCEPT !.rooms = Del(@, made.ids[o])]
    /\ MadeFrame

NextRegistry ==
    \/ \E o \in MadeRooms : RoomCreate(o)
    \/ \E o \in MadeRooms : RoomCreateMx(o)
    \/ \E o \in MadeRooms : RoomUnregister(o)

SpecRegistry == InitThread /\ [][NextRegistry]_vars

\* C37 (as stated): the room stored under a key of _rooms has that key as
\* its id; no key is None, and no room is stored under two keys.
C37_RegistryKeyedById ==
    /\ \A k \in DOMAIN made.rooms : k # 0 /\ made.ids[made.rooms[k]] = k
    /\ \A j, k \in DOMAIN made.rooms : made.rooms[j] = made.rooms[k] => j = k


\* ------------------------------------------------------------------ C39
\* C39 (as stated): a stream message that _handle_message has accepted and
\* enqueued is sent to Matrix: when the queue has run dry and no Matrix call
\* has failed, each enqueued message is in the message table of the room,
\* also when its topic was renamed while it waited in the queue.
C39_AcceptedMessageSent ==
    (kind = "stream" /\ RoomQuiet /\ faults = 0) =>
        \A i \in DOMAIN enqueued :
            enqueued[i].type = "message" => enqueued[i].m \in DOMAIN messages


\* ------------------------------------------------------------------ C40
\* C40 (as stated): a message that a Matrix user wrote in the stream room
\* and that send_message of Zulip accepted is never sent into the Matrix
\* room by the bridge, whenever Zulip delivers its message event.
C40_NoEcho ==
    kind = "stream" =>
        \A j \in DOMAIN mxlog : \A k \in DOMAIN zlog :
            (IsSend(mxlog[j], "message") /\ zlog[k].op = "send_message" /\ zlog[k].ok)
                => mxlog[j].m # zlog[k].m

====
